---- MODULE Spec2Model ----
(***************************************************************************)
(* A-NLO: the per-cycle decision pipeline (observe, plan, execute, reward),*)
(* the synthetic market (agents_investment/market_generator.py), the       *)
(* signal generator (trading_bot.py), the sizing policy and the ledger     *)
(* (investment_agent.py), the account state (backend/utils.py) and the two *)
(* cycle drivers of backend/main.py.                                       *)
(*                                                                         *)
(* Python floats are modelled on decimal grids, every product and quotient *)
(* rounded to the nearest grid point (as an IEEE operation rounds to the   *)
(* nearest double):                                                        *)
(*   prices            1 = 1e-6           (PriceScale)                     *)
(*   mu, sigma, log-returns, exp(.)  1 = 1e-8   (RetScale)                 *)
(*   standard-normal draws z         1 = 1e-6   (ZScale)                   *)
(*   money             1 = 0.01           (MoneyScale)                     *)
(*   instrument units  1 = 1e-4           (UnitScale)                      *)
(*   single-step returns, volatility 1 = 1e-4   (VolScale)                 *)
(*   reward            1 = 0.002          (RewardScale)                    *)
(***************************************************************************)
EXTENDS Integers, Sequences, FiniteSets, TLC

VARIABLES
    _state,             \* market_generator._state: ticker -> instrument
    SIM_STATE,          \* backend.utils.SIM_STATE
    _global_portfolio,  \* investment_agent._global_portfolio
    pc,                 \* position of each cycle driver inside run_cycle
    loc,                \* run_cycle's locals, per driver
    started,            \* cycles started so far (bounded by MaxCycles)
    probe               \* the last pure-function application (the unit specifications)

vars == <<_state, SIM_STATE, _global_portfolio, pc, loc, started, probe>>

----------------------------------------------------------------------------
(* Scales of the decimal grids. *)
PriceScale  == 10^6
RetScale    == 10^8
ZScale      == 10^6
MoneyScale  == 10^2
UnitScale   == 10^4
VolScale    == 10^4
RewardScale == 5 * MoneyScale

----------------------------------------------------------------------------
(* Arithmetic on the grids. *)

Abs(x) == IF x < 0 THEN -x ELSE x
Max(a, b) == IF a >= b THEN a ELSE b
Min(a, b) == IF a <= b THEN a ELSE b

\* <<q + rest \div c, rest % c>>: a quotient q and what is left to divide by c.
SplitLow(q, rest, c) == <<q + rest \div c, rest % c>>

\* hi * s^2 + mid * s + lo divided by s^2, for lo < s^2.
SplitMid(hi, mid, lo, s) == SplitLow(hi + mid \div s, (mid % s) * s + lo, s * s)

\* <<quotient, remainder>> of a*b by s^2 for 0 <= a, b < 10^9, the factors split
\* at s so that no intermediate value leaves 32 bits.
SplitQR(a, b, s) ==
    SplitMid((a \div s) * (b \div s),
             (a \div s) * (b % s) + (a % s) * (b \div s),
             (a % s) * (b % s), s)

\* One base-4 digit of the multiplier: h = <<quotient, remainder>> so far.
Carry4(r, q, h, c) == <<4 * h[1] + q + (4 * h[2] + r) \div c, (4 * h[2] + r) % c>>

\* <<quotient, remainder>> of a*b by c for a, b >= 0 and 0 < c < 3*10^8, a base-4
\* digit of b at a time so that no intermediate value leaves 32 bits.
RECURSIVE Digits4(_, _, _)
Digits4(a, b, c) ==
    IF b = 0 THEN <<0, 0>>
    ELSE Carry4((b % 4) * (a % c), (b % 4) * (a \div c), Digits4(a, b \div 4, c), c)

\* <<quotient, remainder>> of a*b by c, for a, b >= 0.
MulDivQR(a, b, c) ==
    IF c = 10^8 THEN SplitQR(a, b, 10^4)
    ELSE IF c = 10^6 THEN SplitQR(a, b, 10^3)
    ELSE Digits4(a, b, c)

\* The quotient by c*k rounded to the nearest integer (halves up), given the
\* quotient and remainder h = <<q, r>> by c.
NearestOver(h, c, k) ==
    h[1] \div k + (IF 2 * ((h[1] % k) * c + h[2]) >= k * c THEN 1 ELSE 0)

\* a*b/(c*k) rounded to the nearest integer (halves away from zero), any signs of
\* a and b; c, k > 0.
MulDivBy(a, b, c, k) ==
    IF (a < 0) = (b < 0)
    THEN NearestOver(MulDivQR(Max(Abs(a), Abs(b)), Min(Abs(a), Abs(b)), c), c, k)
    ELSE -NearestOver(MulDivQR(Max(Abs(a), Abs(b)), Min(Abs(a), Abs(b)), c), c, k)

\* a*b/c rounded to the nearest integer.
MulDiv(a, b, c) == MulDivBy(a, b, c, 1)

\* a/b rounded to the nearest integer, b > 0.
RoundDiv(a, b) == MulDiv(a, 1, b)

\* sum(s), by halves.
RECURSIVE SumSeq(_)
SumSeq(s) ==
    IF Len(s) = 0 THEN 0
    ELSE IF Len(s) = 1 THEN s[1]
    ELSE SumSeq(SubSeq(s, 1, Len(s) \div 2)) + SumSeq(SubSeq(s, Len(s) \div 2 + 1, Len(s)))

Last(s) == s[Len(s)]

\* The last n entries of s (Python's s[-n:]).
LastN(s, n) == IF Len(s) <= n THEN s ELSE SubSeq(s, Len(s) - n + 1, Len(s))

\* The integer square root of n, 0 <= n < 46340^2 (math.sqrt on the volatility
\* grid), by bisection: lo^2 <= n < hi^2 throughout.
RECURSIVE SqrtBetween(_, _, _)
SqrtBetween(n, lo, hi) ==
    IF hi - lo <= 1 THEN lo
    ELSE IF ((lo + hi) \div 2) * ((lo + hi) \div 2) <= n
    THEN SqrtBetween(n, (lo + hi) \div 2, hi)
    ELSE SqrtBetween(n, lo, (lo + hi) \div 2)

ISqrt(n) == SqrtBetween(n, 0, 46340)

\* math.exp on the RetScale grid: the series 1 + x + x^2/2! + ... + x^5/5! in
\* Horner form, each quotient rounded to the grid; the terms left out are below
\* the grid for the |x| <= 0.5 that sigma <= 0.05 and |z| <= 8.6 allow
\* (random.gauss returns no larger |z|).
Exp(x) ==
    RetScale + MulDivBy(x, RetScale + MulDivBy(x, RetScale + MulDivBy(x, RetScale
        + MulDivBy(x, RetScale + MulDivBy(x, RetScale, RetScale, 5), RetScale, 4),
          RetScale, 3), RetScale, 2), RetScale, 1)

----------------------------------------------------------------------------
(* agents_investment/market_generator.py *)

Tickers == {"INDEX", "STOCK_A", "STOCK_B"}

\* The module-level _state literal, before the import-time bootstrap.
MarketLiteral ==
    [t \in Tickers |->
        CASE t = "INDEX"   -> [price |-> 100 * PriceScale, history |-> <<>>,
                               mu |-> 80000,  sigma |-> 2000000]
          [] t = "STOCK_A" -> [price |-> 60 * PriceScale, history |-> <<>>,
                               mu |-> 100000, sigma |-> 3000000]
          [] t = "STOCK_B" -> [price |-> 140 * PriceScale, history |-> <<>>,
                               mu |-> 40000,  sigma |-> 2500000]]

\* abs(new_price - price) < 1e-6, on the price grid.
FlatEps == 1
\* The nudge of 0.3 %: price * (1.0 + 0.003 * direction), in thousandths.
NudgePerMille == 3
\* len(history) > 2000: the history cap (scaled for the model).
HistCap == 23
\* range(200): the steps of the bootstrap (scaled for the model).
BootSteps == 20

\* A faulty cap that drops the newest entry, history.pop(), not the oldest.
AppendDropsNewest(history, x) ==
    IF Len(history) >= HistCap THEN history ELSE Append(history, x)

\* history.append(new_price); if len(history) > cap: history.pop(0)
AppendCapped(history, x) ==
    LET h == Append(history, x)
    IN  IF Len(h) > HistCap THEN Tail(h) ELSE h

\* log_ret = (mu - 0.5 * sigma ** 2) + sigma * z
LogRet(d, z) ==
    (d.mu - MulDivBy(d.sigma, d.sigma, RetScale, 2)) + MulDiv(d.sigma, z, ZScale)

\* A faulty nudge, with the "1.0 +" left out: price * (0.003 * direction).
NudgeBare(price, direction) == MulDiv(price, NudgePerMille * direction, 1000)

\* The nudge: price * (1.0 + 0.003 * direction).
Nudge(price, direction) == MulDiv(price, 1000 + NudgePerMille * direction, 1000)

\* A faulty _step_gbm, without the flat test: the price of the exponential as it is.
KeepFlat(price, new_price, z) == new_price

\* "Ensure strictly positive and never exactly flat": new_price, or the nudge in
\* the direction of z when new_price is non-positive or within 1e-6 of price.
NeverFlat(price, new_price, z) ==
    IF new_price <= 0 \/ Abs(new_price - price) < FlatEps
    THEN Nudge(price, IF z >= 0 THEN 1 ELSE -1)
    ELSE new_price

\* The price _step_gbm computes from the draw z.
GbmPrice(d, z) ==
    NeverFlat(d.price, MulDiv(d.price, Exp(LogRet(d, z)), RetScale), z)

\* d["price"] = new_price; history.append(new_price); the cap.
WithPrice(d, new_price) ==
    [d EXCEPT !.price = new_price,
              !.history = AppendCapped(d.history, new_price)]

\* _step_gbm on one instrument record d with the draw z.
_step_gbm(d, z) == WithPrice(d, GbmPrice(d, z))

\* step_market on the market m with one draw per ticker: for t in _state.
step_market(m, zs) ==
    [INDEX   |-> _step_gbm(m["INDEX"], zs["INDEX"]),
     STOCK_A |-> _step_gbm(m["STOCK_A"], zs["STOCK_A"]),
     STOCK_B |-> _step_gbm(m["STOCK_B"], zs["STOCK_B"])]

get_price(m, ticker) ==
    IF ticker \in Tickers THEN m[ticker].price ELSE m["INDEX"].price

get_history(m, ticker) ==
    IF ticker \in Tickers THEN m[ticker].history ELSE m["INDEX"].history

\* k steps of the market from draw i on, every ticker drawing pat[1], pat[2],
\* ... cyclically: the first half of the steps, then the rest.
RECURSIVE StepsWith(_, _, _, _)
StepsWith(m, pat, i, k) ==
    IF k = 0 THEN m
    ELSE IF k = 1
    THEN step_market(m, [t \in Tickers |-> pat[((i - 1) % Len(pat)) + 1]])
    ELSE CHOOSE r \in {StepsWith(m1, pat, i + k \div 2, k - k \div 2) :
                        m1 \in {StepsWith(m, pat, i, k \div 2)}} : TRUE

\* A faulty bootstrap, without the test for an empty history: it always steps.
BootstrapAlways(m, pat) == StepsWith(m, pat, 1, BootSteps)

\* _ensure_bootstrap: the steps run only when INDEX has no history.
_ensure_bootstrap(m, pat) ==
    IF m["INDEX"].history = <<>> THEN StepsWith(m, pat, 1, BootSteps) ELSE m

\* The single-step returns (p[i] - p[i-1]) / p[i-1], on the volatility grid.
Returns(prices) ==
    [i \in 1..(Len(prices) - 1) |->
        MulDiv(prices[i + 1] - prices[i], VolScale, prices[i])]

\* var = sum((r - mu) ** 2 for r in rets) / len(rets)
Variance(rets, mu) ==
    RoundDiv(SumSeq([i \in 1..Len(rets) |-> (rets[i] - mu) * (rets[i] - mu)]), Len(rets))

\* mu = sum(rets) / len(rets); sqrt(var)
StdOf(rets) == ISqrt(Variance(rets, RoundDiv(SumSeq(rets), Len(rets))))

\* The standard deviation of the single-step returns of prices; 0.0 below two prices.
StdOfReturns(prices) ==
    IF Len(prices) < 2 THEN 0 ELSE StdOf(Returns(prices))

_realized_volatility(prices) == StdOfReturns(prices)

\* get_index_metrics on a bootstrapped market: (history, current, volatility, return).
IndexMetrics(hist) ==
    [hist    |-> hist,
     current |-> IF hist # <<>> THEN Last(hist) ELSE 100 * PriceScale,
     vol     |-> _realized_volatility(hist),
     ret     |-> IF Len(hist) >= 2 /\ hist[1] > 0
                 THEN MulDiv(Last(hist), VolScale, hist[1]) - VolScale
                 ELSE 0]

get_index_metrics(m) == IndexMetrics(get_history(m, "INDEX"))

----------------------------------------------------------------------------
(* agents_investment/trading_bot.py *)

\* Python's None where a price is expected (no price is negative).
None == 0 - 1

\* Python's `x or y`: y when x is None or 0.0.
OrElse(x, y) == IF x = None \/ x = 0 THEN y ELSE x

\* The mean of w, taken around w[1] so that the sum stays within 32 bits.
Mean(w) == w[1] + RoundDiv(SumSeq([i \in 1..Len(w) |-> w[i] - w[1]]), Len(w))

SmaShort == 5
SmaLong == 20
TrendWindow == 10

_sma(values, window) ==
    IF Len(values) < window THEN None ELSE Mean(LastN(values, window))

_volatility(values) == StdOfReturns(values)

\* A faulty crossover rule: the sell bonus given in calm markets, as for buy.
CrossoverCalmBonus(short, long, price, vol) ==
    IF short > MulDiv(long, 101, 100) /\ price > long
    THEN [signal |-> "buy",  conf |-> 70 + (IF vol < 200 THEN 20 ELSE 0)]
    ELSE IF short < MulDiv(long, 99, 100) /\ price < long
    THEN [signal |-> "sell", conf |-> 70 + (IF vol < 200 THEN 20 ELSE 0)]
    ELSE [signal |-> "hold", conf |-> 10]

\* The crossover rule of analyze_market, before the volatility filter.
Crossover(short, long, price, vol) ==
    IF short > MulDiv(long, 101, 100) /\ price > long
    THEN [signal |-> "buy",  conf |-> 70 + (IF vol < 200 THEN 20 ELSE 0)]
    ELSE IF short < MulDiv(long, 99, 100) /\ price < long
    THEN [signal |-> "sell", conf |-> 70 + (IF vol > 300 THEN 20 ELSE 0)]
    ELSE [signal |-> "hold", conf |-> 10]

\* A faulty volatility filter, chained to the crossover with elif: it applies
\* only when no crossover was found.
VetoUnlessCrossed(x, vol) ==
    IF x.signal = "hold" /\ vol > 600 THEN [signal |-> "hold", conf |-> 20] ELSE x

\* The volatility filter of analyze_market: vol > 0.06 forces hold, confidence 20.
VolatilityFilter(x, vol) ==
    IF vol > 600 THEN [signal |-> "hold", conf |-> 20] ELSE x

\* The dict analyze_market returns: the confidence clamped to [0, 100].
SignalInfo(x, vol) ==
    [signal     |-> x.signal,
     confidence |-> Min(100, Max(0, x.conf)),
     volatility |-> vol]

\* analyze_market from the short average on: long = _sma(history, 20) or short.
AnalyzeFrom(history, short, vol) ==
    SignalInfo(VolatilityFilter(
                   Crossover(short, OrElse(_sma(history, SmaLong), short),
                             Last(history), vol),
                   vol),
               vol)

analyze_market(history) ==
    IF history = <<>>
    THEN [signal |-> "hold", confidence |-> 0, volatility |-> 0]
    ELSE AnalyzeFrom(history, OrElse(_sma(history, SmaShort), Last(history)),
                     _volatility(history))

\* The least-squares line over ys (n prices, mean mean_y), one step ahead. With
\* X[i] = 2 (x[i] - mean_x):
\*   intercept + slope * n = mean_y + slope * (n - mean_x)
\*                         = mean_y + (sum X (y - mean_y)) (n + 1) / (sum X^2).
TrendLine(ys, n, mean_y) ==
    mean_y + MulDiv(SumSeq([i \in 1..n |-> (2 * (i - 1) - (n - 1)) * (ys[i] - mean_y)]),
                    n + 1,
                    OrElse(SumSeq([i \in 1..n |->
                               (2 * (i - 1) - (n - 1)) * (2 * (i - 1) - (n - 1))]), 4))

\* predict_price: the last price below 3 points, else the line over the last
\* min(10, len) prices extrapolated one step, floored at 0.
predict_price(history) ==
    IF history = <<>> THEN 0
    ELSE IF Len(history) < 3 THEN Last(history)
    ELSE Max(0, TrendLine(LastN(history, Min(TrendWindow, Len(history))),
                          Min(TrendWindow, Len(history)),
                          Mean(LastN(history, Min(TrendWindow, Len(history))))))

----------------------------------------------------------------------------
(* agents_investment/investment_agent.py *)

\* max_vol on the volatility grid; the factors in tenths; max_alloc in percent.
risk_config ==
    [conservative |-> [max_vol |-> 200, max_alloc |-> 3,
                       lumpsum_factor |-> 0,  sip_factor |-> 7],
     balanced     |-> [max_vol |-> 300, max_alloc |-> 6,
                       lumpsum_factor |-> 10, sip_factor |-> 10],
     aggressive   |-> [max_vol |-> 500, max_alloc |-> 12,
                       lumpsum_factor |-> 20, sip_factor |-> 15]]

\* risk_config.get(profile, risk_config["balanced"])
RiskCfg(profile) ==
    IF profile \in DOMAIN risk_config THEN risk_config[profile]
    ELSE risk_config["balanced"]

\* dict.get(key, default)
Get(d, key, default) == IF key \in DOMAIN d THEN d[key] ELSE default

\* The empty dict.
EmptyDict == [k \in {} |-> 0]

\* Portfolio(cash=0.0)
NewPortfolio == [cash |-> 0, positions |-> EmptyDict]

\* positions with ticker set to units (a new key is added).
SetPos(positions, ticker, units) ==
    [t \in (DOMAIN positions) \cup {ticker} |->
        IF t = ticker THEN units ELSE positions[t]]

\* A faulty pop that leaves the entry in the mapping with no units.
PopLeavesZero(positions, ticker) ==
    [t \in DOMAIN positions |-> IF t = ticker THEN 0 ELSE positions[t]]

\* positions.pop(ticker, None)
PopPos(positions, ticker) ==
    [t \in (DOMAIN positions) \ {ticker} |-> positions[t]]

\* amount / price: money over a price, in units of the instrument.
UnitsFor(amount, price) == MulDiv(amount, PriceScale * (UnitScale \div MoneyScale), price)

\* units * price: units of the instrument at a price, in money.
CashFor(units, price) == MulDiv(units, price, PriceScale * (UnitScale \div MoneyScale))

\* Portfolio.buy once amount and price are known to be positive.
BuyFilled(pf, ticker, amount, price, units) ==
    [pf  |-> [pf EXCEPT !.positions =
                 SetPos(pf.positions, ticker, Get(pf.positions, ticker, 0) + units)],
     res |-> [status |-> "filled", ticker |-> ticker, amount |-> amount,
              units |-> units, price |-> price]]

\* The result of a buy or sell that does nothing, with its status.
NoTrade(pf, ticker, status) ==
    [pf  |-> pf,
     res |-> [status |-> status, ticker |-> ticker, amount |-> 0, units |-> 0]]

\* Portfolio.buy: the new portfolio and the result it returns.
PortfolioBuy(pf, m, ticker, amt) ==
    IF Max(0, amt) <= 0 THEN NoTrade(pf, ticker, "noop")
    ELSE IF get_price(m, ticker) <= 0 THEN NoTrade(pf, ticker, "failed")
    ELSE BuyFilled(pf, ticker, Max(0, amt), get_price(m, ticker),
                   UnitsFor(Max(0, amt), get_price(m, ticker)))

\* The units Portfolio.sell leaves: max(0.0, units_owned - units).
UnitsLeft(units_owned, units) == Max(0, units_owned - units)

\* A faulty Portfolio.sell, without the pop of an entry left with no units.
SellKeepsEntry(pf, ticker, sell_cash, price, units, left) ==
    [pf  |-> [cash |-> pf.cash + sell_cash,
              positions |-> SetPos(pf.positions, ticker, left)],
     res |-> [status |-> "filled", ticker |-> ticker, amount |-> sell_cash,
              units |-> units, price |-> price]]

\* Portfolio.sell from the units sold on: the entry is popped when none is left.
SellFilled(pf, ticker, sell_cash, price, units, left) ==
    [pf  |-> [cash |-> pf.cash + sell_cash,
              positions |-> IF left = 0 THEN PopPos(pf.positions, ticker)
                            ELSE SetPos(pf.positions, ticker, left)],
     res |-> [status |-> "filled", ticker |-> ticker, amount |-> sell_cash,
              units |-> units, price |-> price]]

\* units = sell_cash / price; positions[ticker] = max(0.0, units_owned - units)
SellUnits(pf, ticker, sell_cash, price, units_owned, units) ==
    SellFilled(pf, ticker, sell_cash, price, units, UnitsLeft(units_owned, units))

\* max_cash = units_owned * price; sell_cash = min(amount, max_cash)
SellCash(amount, units_owned, price) == Min(amount, CashFor(units_owned, price))

\* Portfolio.sell: the new portfolio and the result it returns.
PortfolioSell(pf, m, ticker, amt) ==
    IF Max(0, amt) <= 0 THEN NoTrade(pf, ticker, "noop")
    ELSE IF Get(pf.positions, ticker, 0) <= 0 \/ get_price(m, ticker) <= 0
    THEN NoTrade(pf, ticker, "failed")
    ELSE SellUnits(pf, ticker,
                   SellCash(Max(0, amt), Get(pf.positions, ticker, 0), get_price(m, ticker)),
                   get_price(m, ticker),
                   Get(pf.positions, ticker, 0),
                   UnitsFor(SellCash(Max(0, amt), Get(pf.positions, ticker, 0),
                                     get_price(m, ticker)),
                            get_price(m, ticker)))

RECURSIVE SumOver(_, _, _)
SumOver(positions, m, S) ==
    IF S = {} THEN 0
    ELSE CashFor(positions[CHOOSE x \in S : TRUE], get_price(m, CHOOSE x \in S : TRUE))
            + SumOver(positions, m, S \ {CHOOSE x \in S : TRUE})

\* Portfolio.portfolio_value: cash + sum of units * price.
portfolio_value(pf, m) == pf.cash + SumOver(pf.positions, m, DOMAIN pf.positions)

\* base_sip = max(0.03 * income, 0.02 * cash)
BaseSip(income, cash) == Max(MulDiv(income, 3, 100), MulDiv(cash, 2, 100))

\* available = max(0.0, cash - emergency_buffer)
Available(cash, emergency_buffer) == Max(0, cash - emergency_buffer)

\* sip *= cfg["sip_factor"]
SipFactor(sip, cfg) == MulDiv(sip, cfg.sip_factor, 10)

\* if vol > cfg["max_vol"]: sip *= 0.5; return max(0.0, sip)
Dampen(sip, vol, cfg) == Max(0, IF vol > cfg.max_vol THEN MulDiv(sip, 1, 2) ELSE sip)

\* _compute_sip from the values it reads off the state.
SipOf(cfg, cash, income, emergency_buffer, vol) ==
    Dampen(SipFactor(Min(BaseSip(income, cash), Available(cash, emergency_buffer)), cfg),
           vol, cfg)

\* expense and the default of emergency_buffer, 3 * expense.
DefaultBuffer(expense) == IF expense > 0 THEN expense * 3 ELSE 0

\* _compute_sip(state, history, profile)
_compute_sip(state, profile) ==
    SipOf(RiskCfg(profile),
          Get(state, "bank_balance", Get(state, "balance", 0)),
          Get(state, "monthly_income", Get(state, "income_rate", 0)),
          Get(state, "emergency_buffer",
              DefaultBuffer(Get(state, "monthly_expense", Get(state, "expense_rate", 0)))),
          Get(state, "volatility", 0))

\* A faulty lump-sum condition, without the test of the confidence.
GateAnyConfidence(signal, confidence, trend_positive, vol, cfg) ==
    /\ signal = "buy"
    /\ trend_positive
    /\ vol < cfg.max_vol
    /\ cfg.lumpsum_factor > 0

\* The lump-sum condition of evaluate_investment_opportunity.
LumpSumGate(signal, confidence, trend_positive, vol, cfg) ==
    /\ signal = "buy"
    /\ confidence >= 75
    /\ trend_positive
    /\ vol < cfg.max_vol
    /\ cfg.lumpsum_factor > 0

\* The dict evaluate_investment_opportunity returns.
Opportunity(should_invest, amount, mode, signal_info, sip_amount) ==
    [should_invest |-> should_invest,
     amount        |-> IF should_invest THEN Max(amount, 0) ELSE 0,
     mode          |-> IF should_invest THEN mode ELSE "sip",
     signal        |-> signal_info.signal,
     confidence    |-> signal_info.confidence,
     ticker        |-> "INDEX",
     sip_suggested_amount |-> sip_amount]

\* The lump-sum branch: amount = sip_amount * lumpsum_factor, invested if > 0.
LumpSum(signal_info, sip_amount, amount) ==
    Opportunity(amount > 0, amount, "lumpsum", signal_info, sip_amount)

\* The decision of evaluate_investment_opportunity once the gate is known.
Decide(lump, signal_info, cfg, sip_amount) ==
    IF lump
    THEN LumpSum(signal_info, sip_amount, MulDiv(sip_amount, cfg.lumpsum_factor, 10))
    ELSE Opportunity(sip_amount > 0 /\ signal_info.volatility <= cfg.max_vol,
                     sip_amount, "sip", signal_info, sip_amount)

\* evaluate_investment_opportunity from the signal and the forecast on.
EvaluateFrom(state, last_price, signal_info, pred_price, cfg) ==
    Decide(LumpSumGate(signal_info.signal, signal_info.confidence,
                       pred_price > last_price, signal_info.volatility, cfg),
           signal_info, cfg,
           _compute_sip(state, Get(state, "risk_profile", "balanced")))

\* evaluate_investment_opportunity on the history it reads.
EvaluateOn(history, state) ==
    EvaluateFrom(state,
                 IF history # <<>> THEN Last(history) ELSE predict_price(history),
                 analyze_market(history),
                 predict_price(history),
                 RiskCfg(Get(state, "risk_profile", "balanced")))

\* evaluate_investment_opportunity(state), reading the INDEX history of market m.
evaluate_investment_opportunity(m, state) == EvaluateOn(get_history(m, "INDEX"), state)

----------------------------------------------------------------------------
(* backend/utils.py *)

\* The SIM_STATE literal.
SimLiteral ==
    [bank_balance    |-> 10000 * MoneyScale,
     base_income     |-> 5000 * MoneyScale,
     base_expense    |-> 3000 * MoneyScale,
     income_history  |-> <<>>,
     expense_history |-> <<>>,
     balance_history |-> <<10000 * MoneyScale>>,
     sip_history     |-> <<>>,
     lumpsum_history |-> <<>>,
     nav_history     |-> <<>>,
     invested_amount |-> 0,
     last_sip_suggested |-> 0]

\* A faulty reset, its lines out of order: the balance history is rebuilt from
\* the bank balance before that is set back to 10000.
ResetOutOfOrder(S) ==
    [S EXCEPT !.bank_balance    = 10000 * MoneyScale,
              !.income_history  = <<>>,
              !.expense_history = <<>>,
              !.balance_history = <<S.bank_balance>>,
              !.sip_history     = <<>>,
              !.lumpsum_history = <<>>,
              !.nav_history     = <<>>,
              !.invested_amount = 0,
              !.last_sip_suggested = 0]

\* reset_sim_state(): SIM_STATE with its eight keys rewritten.
reset_sim_state(S) ==
    [S EXCEPT !.bank_balance    = 10000 * MoneyScale,
              !.income_history  = <<>>,
              !.expense_history = <<>>,
              !.balance_history = <<10000 * MoneyScale>>,
              !.sip_history     = <<>>,
              !.lumpsum_history = <<>>,
              !.nav_history     = <<>>,
              !.invested_amount = 0,
              !.last_sip_suggested = 0]

\* A faulty derivation of the risk profile, its first two names exchanged.
RiskProfileSwapped(vol) ==
    IF vol < 200 THEN "balanced"
    ELSE IF vol < 350 THEN "aggressive"
    ELSE "conservative"

\* The risk profile _construct_core_state derives from the volatility.
RiskProfileOf(vol) ==
    IF vol < 200 THEN "aggressive"
    ELSE IF vol < 350 THEN "balanced"
    ELSE "conservative"

\* The dict _construct_core_state builds from the values it has read.
CoreState(S, metrics, nav_holdings, monthly_income, monthly_expense, emergency_buffer) ==
    [balance             |-> S.bank_balance,
     income_rate         |-> monthly_income,
     expense_rate        |-> monthly_expense,
     volatility          |-> metrics.vol,
     portfolio_value     |-> S.bank_balance + nav_holdings,
     emergency_buffer_ok |-> S.bank_balance >= emergency_buffer,
     risk_profile        |-> RiskProfileOf(metrics.vol),
     bank_balance        |-> S.bank_balance,
     monthly_income      |-> monthly_income,
     monthly_expense     |-> monthly_expense,
     emergency_buffer    |-> emergency_buffer,
     price_history       |-> metrics.hist,
     nav_history         |-> S.nav_history]

\* _construct_core_state from the last income and expense on.
CoreWith(m, pf, S, monthly_income, monthly_expense) ==
    CoreState(S, get_index_metrics(m), portfolio_value(pf, m),
              monthly_income, monthly_expense, DefaultBuffer(monthly_expense))

\* _construct_core_state(). Its "nav_history" is SIM_STATE's list itself, not a
\* copy: the holder sees later appends (see NavHistoryOf).
_construct_core_state(m, pf, S) ==
    CoreWith(m, pf, S,
             IF S.income_history # <<>> THEN Last(S.income_history) ELSE 0,
             IF S.expense_history # <<>> THEN Last(S.expense_history) ELSE 0)

\* _recompute_sip_suggestion(core): SIM_STATE with last_sip_suggested stored.
_recompute_sip_suggestion(m, S, core) ==
    [S EXCEPT !.last_sip_suggested =
        evaluate_investment_opportunity(m, core).sip_suggested_amount]

\* core = _construct_core_state(); _recompute_sip_suggestion(core)
Recomputed(m, pf, S) == _recompute_sip_suggestion(m, S, _construct_core_state(m, pf, S))

\* Faulty writes of simulate_income_and_expense: the balance is appended to its
\* history before the expense is deducted.
CashFlowAppendsEarly(S, income, expense) ==
    [S EXCEPT !.bank_balance    = S.bank_balance + income - expense,
              !.income_history  = Append(S.income_history, income),
              !.expense_history = Append(S.expense_history, expense),
              !.balance_history = Append(S.balance_history, S.bank_balance + income)]

\* The SIM_STATE writes of simulate_income_and_expense before the recomputation.
CashFlowWrites(S, income, expense) ==
    [S EXCEPT !.bank_balance    = S.bank_balance + income - expense,
              !.income_history  = Append(S.income_history, income),
              !.expense_history = Append(S.expense_history, expense),
              !.balance_history = Append(S.balance_history, S.bank_balance + income - expense)]

\* simulate_income_and_expense with the two draws: the new SIM_STATE.
simulate_income_and_expense(m, pf, S, inc, exp) ==
    Recomputed(m, pf, CashFlowWrites(S, Max(0, inc), Max(0, exp)))

\* Faulty writes of apply_investment: the entry of the other series is left out.
InvestWritesOneSeries(S, mode, invest_amt) ==
    [S EXCEPT !.bank_balance    = S.bank_balance - invest_amt,
              !.sip_history     =
                  IF mode = "lumpsum" THEN S.sip_history
                  ELSE Append(S.sip_history, invest_amt),
              !.lumpsum_history =
                  IF mode = "lumpsum" THEN Append(S.lumpsum_history, invest_amt)
                  ELSE S.lumpsum_history,
              !.balance_history = Append(S.balance_history, S.bank_balance - invest_amt),
              !.invested_amount = S.invested_amount + invest_amt]

\* The SIM_STATE writes of apply_investment before the recomputation.
InvestWrites(S, mode, invest_amt) ==
    [S EXCEPT !.bank_balance    = S.bank_balance - invest_amt,
              !.sip_history     =
                  Append(S.sip_history, IF mode = "lumpsum" THEN 0 ELSE invest_amt),
              !.lumpsum_history =
                  Append(S.lumpsum_history, IF mode = "lumpsum" THEN invest_amt ELSE 0),
              !.balance_history = Append(S.balance_history, S.bank_balance - invest_amt),
              !.invested_amount = S.invested_amount + invest_amt]

\* apply_investment from the trade on.
Invested(m, S1, trade) ==
    [S   |-> Recomputed(m, trade.pf, S1),
     pf  |-> trade.pf,
     res |-> trade.res]

\* A faulty apply_investment that does not clamp the amount to the bank balance.
ApplyUnclamped(m, pf, S, mode, ticker, amt) ==
    IF Max(0, amt) <= 0
    THEN [S   |-> [S EXCEPT !.sip_history = Append(S.sip_history, 0),
                            !.lumpsum_history = Append(S.lumpsum_history, 0)],
          pf  |-> pf,
          res |-> [status |-> "noop", amount |-> 0]]
    ELSE Invested(m, InvestWrites(S, mode, Max(0, amt)),
                  PortfolioBuy(pf, m, ticker, Max(0, amt)))

\* apply_investment(timestamp, mode, ticker, amount): the new SIM_STATE, the new
\* portfolio and the result returned.
apply_investment(m, pf, S, mode, ticker, amt) ==
    IF Max(0, amt) <= 0
    THEN [S   |-> [S EXCEPT !.sip_history = Append(S.sip_history, 0),
                            !.lumpsum_history = Append(S.lumpsum_history, 0)],
          pf  |-> pf,
          res |-> [status |-> "noop", amount |-> 0]]
    ELSE Invested(m, InvestWrites(S, mode, Min(Max(0, amt), S.bank_balance)),
                  PortfolioBuy(pf, m, ticker, Min(Max(0, amt), S.bank_balance)))

\* (tx.get("type") or "manual").lower(), for the types that are passed.
TxType(tx) ==
    LET given == Get(tx, "type", "")
    IN  CASE given = ""        -> "manual"
          [] given = "Income"  -> "income"
          [] given = "REPAY"   -> "repay"
          [] OTHER             -> given

\* Faulty writes of insert_transaction: a repay is deducted from the balance
\* without an entry in the expense history.
InsertRepayUnrecorded(S, ttype, amount) ==
    LET balance == IF ttype = "income" THEN S.bank_balance + amount
                   ELSE IF ttype \in {"expense", "repay"} THEN S.bank_balance - amount
                   ELSE S.bank_balance
    IN  [S EXCEPT !.bank_balance    = balance,
                  !.income_history  = IF ttype = "income"
                                      THEN Append(S.income_history, amount)
                                      ELSE S.income_history,
                  !.expense_history = IF ttype = "expense"
                                      THEN Append(S.expense_history, amount)
                                      ELSE S.expense_history,
                  !.balance_history = Append(S.balance_history, balance)]

\* The SIM_STATE writes of insert_transaction before the recomputation.
InsertWrites(S, ttype, amount) ==
    LET balance == IF ttype = "income" THEN S.bank_balance + amount
                   ELSE IF ttype \in {"expense", "repay"} THEN S.bank_balance - amount
                   ELSE S.bank_balance
    IN  [S EXCEPT !.bank_balance    = balance,
                  !.income_history  = IF ttype = "income"
                                      THEN Append(S.income_history, amount)
                                      ELSE S.income_history,
                  !.expense_history = IF ttype \in {"expense", "repay"}
                                      THEN Append(S.expense_history, amount)
                                      ELSE S.expense_history,
                  !.balance_history = Append(S.balance_history, balance)]

\* insert_transaction(tx): the new SIM_STATE.
insert_transaction(m, pf, S, tx) ==
    Recomputed(m, pf, InsertWrites(S, TxType(tx), Get(tx, "amount", 0)))

\* A faulty update_nav_history that appends the value twice.
NavAppendedTwice(S, nav) ==
    [S   |-> [S EXCEPT !.nav_history = Append(Append(S.nav_history, nav), nav)],
     nav |-> nav]

\* update_nav_history(): the value appended.
NavAppended(S, nav) ==
    [S   |-> [S EXCEPT !.nav_history = Append(S.nav_history, nav)],
     nav |-> nav]

update_nav_history(m, pf, S) == NavAppended(S, portfolio_value(pf, m))

\* The dict get_state returns: core and the three keys added to it.
Snapshot(S, core, sip) ==
    [k \in (DOMAIN core) \cup
           {"sip_suggested_amount", "cashflow_inflow", "cashflow_outflow"} |->
        CASE k = "sip_suggested_amount" -> sip
          [] k = "cashflow_inflow"      -> SumSeq(S.income_history)
          [] k = "cashflow_outflow"     -> SumSeq(S.expense_history)
          [] OTHER                      -> core[k]]

\* get_state from the recomputed suggestion on.
StateWith(S, core, sip) ==
    [S     |-> [S EXCEPT !.last_sip_suggested = sip],
     state |-> Snapshot(S, core, sip)]

\* get_state from core on.
StateFrom(m, S, core) ==
    StateWith(S, core, evaluate_investment_opportunity(m, core).sip_suggested_amount)

\* get_state(): the snapshot returned and the SIM_STATE it leaves.
get_state(m, pf, S) == StateFrom(m, S, _construct_core_state(m, pf, S))

----------------------------------------------------------------------------
(* agents_core/planner.py, executor.py, reward.py *)

\* A faulty fallback of plan, its tests in the other order: repay before save.
FallbackRepayFirst(state) ==
    IF Get(state, "expense_rate", 0) > Get(state, "income_rate", 0) THEN "repay"
    ELSE IF ~Get(state, "emergency_buffer_ok", TRUE) THEN "save"
    ELSE "hold"

\* The action plan chooses when inv["should_invest"] is false.
Fallback(state) ==
    IF ~Get(state, "emergency_buffer_ok", TRUE) THEN "save"
    ELSE IF Get(state, "expense_rate", 0) > Get(state, "income_rate", 0) THEN "repay"
    ELSE "hold"

\* A faulty plan that passes the suggested SIP as the amount when it does not
\* invest.
PlanKeepsAmount(state, inv) ==
    [action        |-> IF inv.should_invest THEN "invest" ELSE Fallback(state),
     invest_amount |-> IF inv.should_invest THEN inv.amount ELSE inv.sip_suggested_amount,
     invest_mode   |-> IF inv.should_invest THEN inv.mode ELSE "sip",
     ticker        |-> IF inv.should_invest THEN inv.ticker ELSE "INDEX",
     signal        |-> inv.signal,
     signal_confidence |-> inv.confidence,
     suggested_sip |-> inv.sip_suggested_amount]

\* plan from the opportunity inv on.
PlanFrom(state, inv) ==
    [action        |-> IF inv.should_invest THEN "invest" ELSE Fallback(state),
     invest_amount |-> IF inv.should_invest THEN inv.amount ELSE 0,
     invest_mode   |-> IF inv.should_invest THEN inv.mode ELSE "sip",
     ticker        |-> IF inv.should_invest THEN inv.ticker ELSE "INDEX",
     signal        |-> inv.signal,
     signal_confidence |-> inv.confidence,
     suggested_sip |-> inv.sip_suggested_amount]

plan(m, state) == PlanFrom(state, evaluate_investment_opportunity(m, state))

\* The repay branch of execute.
Repaid(pf, S, repay_amt) ==
    [S   |-> [S EXCEPT !.bank_balance = S.bank_balance - repay_amt,
                       !.balance_history =
                           Append(S.balance_history, S.bank_balance - repay_amt)],
     pf  |-> pf,
     res |-> [status |-> "repaid", amount |-> repay_amt]]

\* execute(plan, state): the new SIM_STATE, the new portfolio and the result.
execute(m, pf, S, plan_out) ==
    IF Get(plan_out, "action", "hold") = "invest" /\ Get(plan_out, "invest_amount", 0) > 0
    THEN apply_investment(m, pf, S, Get(plan_out, "invest_mode", "sip"),
                          Get(plan_out, "ticker", "INDEX"),
                          Get(plan_out, "invest_amount", 0))
    ELSE IF Get(plan_out, "action", "hold") = "repay"
    THEN Repaid(pf, S, Max(0, Get(plan_out, "invest_amount", 0)))
    ELSE IF Get(plan_out, "action", "hold") = "save"
    THEN [S |-> S, pf |-> pf, res |-> [status |-> "saved"]]
    ELSE [S |-> S, pf |-> pf, res |-> [status |-> "hold"]]

\* The weight of the NAV change in the reward: the change itself when
\* last_invest_amount > 0, a fifth of it otherwise.
NavCredit(nav_change, invest_amt) ==
    IF invest_amt > 0 THEN nav_change * (RewardScale \div MoneyScale)
    ELSE MulDiv(nav_change * (RewardScale \div MoneyScale), 2, 10)

\* 1) the NAV component: 0 below two entries of nav_history.
NavComponent(nav_hist, invest_amt) ==
    IF Len(nav_hist) >= 2
    THEN NavCredit(nav_hist[Len(nav_hist)] - nav_hist[Len(nav_hist) - 1], invest_amt)
    ELSE 0

\* 2) the liquidity penalty: 0.5 when the emergency buffer is broken.
BufferPenalty(state) ==
    IF ~Get(state, "emergency_buffer_ok", TRUE) THEN RewardScale \div 2 ELSE 0

\* Faulty volatility penalties, chained with elif: 0.5 above 0.07, else 0.2
\* above 0.04.
VolPenaltyTiered(vol) ==
    IF vol > 700 THEN RewardScale \div 2
    ELSE IF vol > 400 THEN RewardScale \div 5
    ELSE 0

\* 3) the volatility penalties: 0.2 above 0.04 and 0.5 more above 0.07.
VolPenalty(vol) ==
    (IF vol > 400 THEN RewardScale \div 5 ELSE 0)
        + (IF vol > 700 THEN RewardScale \div 2 ELSE 0)

\* 4) the bonus of 0.05 for a result that is filled or saved.
ActionBonus(result) ==
    IF Get(result, "status", "") \in {"filled", "saved"} THEN RewardScale \div 20 ELSE 0

compute_reward(state, result) ==
    NavComponent(Get(state, "nav_history", <<>>), Get(state, "last_invest_amount", 0))
        - BufferPenalty(state)
        - VolPenalty(Get(state, "volatility", 0))
        + ActionBonus(result)

----------------------------------------------------------------------------
(* Bounds of the model and the draws of its random inputs. *)

\* run_cycle invocations per behaviour when operations run one at a time.
MaxCycles == 2

\* The cycle drivers: auto_cycle_runner and the POST /run_cycle handler.
Drivers == {"auto", "req"}

\* Draws of random.gauss(0, 1) on the z grid. For INDEX (mu 0.0008, sigma 0.02)
\* z = -0.03 gives a log-return of 0 and z = -0.029975 one of 5e-7.
ZRise == 120000
ZFall == 0 - 1500000
ZFlat == 0 - 30000
ZTiny == 0 - 29975
ZOther == 250000

\* Draws of the bootstrap: a steady rise, and swings of 1.25, 2.5 and 3.6 sigma.
BootRise == <<ZRise>>
BootPatterns ==
    {BootRise, <<1250000, -1250000>>, <<2500000, -2500000>>, <<3600000, -3600000>>}

\* Draws of random.gauss(base_income, 0.3 base_income) and of
\* random.gauss(base_expense, 0.2 base_expense).
IncomeDraws == {2500 * MoneyScale, 5000 * MoneyScale}
ExpenseDraws == {3000 * MoneyScale, 3700 * MoneyScale}

----------------------------------------------------------------------------
(* agents_core/cycle.py and the drivers of backend/main.py *)

\* The locals of a run_cycle that has not started.
NoLocals ==
    [cash_flows |-> EmptyDict, state |-> EmptyDict, nav_alias |-> FALSE,
     plan_out |-> EmptyDict, result |-> EmptyDict, reward |-> 0, raised |-> FALSE]

\* state["nav_history"] as driver t reads it: SIM_STATE's list while the two are
\* the same object, the list as it was at the reset that replaced it otherwise.
NavHistoryOf(t) ==
    IF loc[t].nav_alias THEN SIM_STATE.nav_history
    ELSE Get(loc[t].state, "nav_history", <<>>)

\* run_cycle's state dict of driver t, its aliased list resolved.
StateOf(t) ==
    IF "nav_history" \in DOMAIN loc[t].state
    THEN [loc[t].state EXCEPT !.nav_history = NavHistoryOf(t)]
    ELSE loc[t].state

\* The state after the modules are imported: the market bootstrapped with the
\* draws of one of the patterns.
InitWith(patterns) ==
    /\ \E pat \in patterns : _state = _ensure_bootstrap(MarketLiteral, pat)
    /\ SIM_STATE = SimLiteral
    /\ _global_portfolio = NewPortfolio
    /\ pc = [t \in Drivers |-> "idle"]
    /\ loc = [t \in Drivers |-> NoLocals]
    /\ started = 0
    /\ probe = EmptyDict

\* A driver calls asyncio.to_thread(run_cycle): no lock is taken.
StartCycle(t, max) ==
    /\ pc[t] = "idle"
    /\ started < max
    /\ started' = started + 1
    /\ pc' = [pc EXCEPT ![t] = "step_market"]
    /\ loc' = [loc EXCEPT ![t] = NoLocals]
    /\ UNCHANGED <<_state, SIM_STATE, _global_portfolio, probe>>

\* run_cycle_endpoint in a worker thread that has no event loop:
\* asyncio.get_event_loop() raises before run_cycle is called.
EndpointRaises ==
    /\ pc["req"] = "idle"
    /\ ~loc["req"].raised
    /\ loc' = [loc EXCEPT !["req"] = [NoLocals EXCEPT !.raised = TRUE]]
    /\ UNCHANGED <<_state, SIM_STATE, _global_portfolio, pc, started, probe>>

\* 1) step_market()
CycleStepMarket(t, ZI) ==
    /\ pc[t] = "step_market"
    /\ \E z \in ZI :
          _state' = step_market(_state,
                                [k \in Tickers |-> IF k = "INDEX" THEN z ELSE ZOther])
    /\ pc' = [pc EXCEPT ![t] = "cashflow"]
    /\ UNCHANGED <<SIM_STATE, _global_portfolio, loc, started, probe>>

\* 2) cash_flows = utils.simulate_income_and_expense(timestamp)
CycleCashFlow(t, Incomes, Expenses) ==
    /\ pc[t] = "cashflow"
    /\ \E inc \in Incomes, exp \in Expenses :
          /\ SIM_STATE' = simulate_income_and_expense(_state, _global_portfolio,
                                                      SIM_STATE, inc, exp)
          /\ loc' = [loc EXCEPT ![t].cash_flows =
                        [monthly_income |-> Max(0, inc), monthly_expense |-> Max(0, exp)]]
    /\ pc' = [pc EXCEPT ![t] = "observe"]
    /\ UNCHANGED <<_state, _global_portfolio, started, probe>>

\* 3) state = observe(); state.update(cash_flows)
CycleObserve(t) ==
    /\ pc[t] = "observe"
    /\ \E g \in {get_state(_state, _global_portfolio, SIM_STATE)} :
           /\ SIM_STATE' = g.S
           /\ loc' = [loc EXCEPT
                 ![t].state = [k \in DOMAIN g.state |->
                                 IF k \in DOMAIN loc[t].cash_flows
                                 THEN loc[t].cash_flows[k]
                                 ELSE IF k = "nav_history" THEN <<>>
                                 ELSE g.state[k]],
                 ![t].nav_alias = TRUE]
    /\ pc' = [pc EXCEPT ![t] = "plan"]
    /\ UNCHANGED <<_state, _global_portfolio, started, probe>>

\* 4) plan_out = plan(state)
CyclePlan(t) ==
    /\ pc[t] = "plan"
    /\ loc' = [loc EXCEPT ![t].plan_out = plan(_state, StateOf(t))]
    /\ pc' = [pc EXCEPT ![t] = "execute"]
    /\ UNCHANGED <<_state, SIM_STATE, _global_portfolio, started, probe>>

\* 5) result = execute(plan_out, state)
CycleExecute(t) ==
    /\ pc[t] = "execute"
    /\ \E e \in {execute(_state, _global_portfolio, SIM_STATE, loc[t].plan_out)} :
           /\ SIM_STATE' = e.S
           /\ _global_portfolio' = e.pf
           /\ loc' = [loc EXCEPT ![t].result = e.res]
    /\ pc' = [pc EXCEPT ![t] = "update_nav"]
    /\ UNCHANGED <<_state, started, probe>>

\* 6) nav = utils.update_nav_history(); state["nav"] = nav
CycleUpdateNav(t) ==
    /\ pc[t] = "update_nav"
    /\ \E u \in {update_nav_history(_state, _global_portfolio, SIM_STATE)} :
           /\ SIM_STATE' = u.S
           /\ loc' = [loc EXCEPT ![t].state =
                        [k \in (DOMAIN loc[t].state) \cup {"nav"} |->
                            IF k = "nav" THEN u.nav ELSE loc[t].state[k]]]
    /\ pc' = [pc EXCEPT ![t] = "reward"]
    /\ UNCHANGED <<_state, _global_portfolio, started, probe>>

\* reward = compute_reward(state, result); return {...}
CycleReward(t) ==
    /\ pc[t] = "reward"
    /\ loc' = [loc EXCEPT ![t].reward = compute_reward(StateOf(t), loc[t].result)]
    /\ pc' = [pc EXCEPT ![t] = "idle"]
    /\ UNCHANGED <<_state, SIM_STATE, _global_portfolio, started, probe>>

\* A faulty POST /reset that also sets the market back to its bootstrap.
ResetAlsoMarket ==
    /\ SIM_STATE' = reset_sim_state(SIM_STATE)
    /\ _state' = _ensure_bootstrap(MarketLiteral, BootRise)
    /\ loc' = [t \in Drivers |->
                 IF loc[t].nav_alias
                 THEN [loc[t] EXCEPT !.nav_alias = FALSE,
                                     !.state.nav_history = SIM_STATE.nav_history]
                 ELSE loc[t]]
    /\ UNCHANGED <<_global_portfolio, pc, started, probe>>

\* POST /reset: utils.reset_sim_state(). The lists of SIM_STATE are replaced by
\* new ones: a state dict of a cycle in flight keeps the old nav_history list.
reset_endpoint ==
    /\ SIM_STATE' = reset_sim_state(SIM_STATE)
    /\ loc' = [t \in Drivers |->
                 IF loc[t].nav_alias
                 THEN [loc[t] EXCEPT !.nav_alias = FALSE,
                                     !.state.nav_history = SIM_STATE.nav_history]
                 ELSE loc[t]]
    /\ UNCHANGED <<_state, _global_portfolio, pc, started, probe>>

\* The steps of a run_cycle in flight.
CycleSteps(t, ZI, Incomes, Expenses) ==
    \/ CycleStepMarket(t, ZI)
    \/ CycleCashFlow(t, Incomes, Expenses)
    \/ CycleObserve(t)
    \/ CyclePlan(t)
    \/ CycleExecute(t)
    \/ CycleUpdateNav(t)
    \/ CycleReward(t)

\* The program as it is deployed: the background runner and the request handler
\* each run cycles in worker threads, and /reset is served at any time.
Init == InitWith({BootRise})

Next ==
    \/ \E t \in Drivers : StartCycle(t, Cardinality(Drivers))
    \/ EndpointRaises
    \/ \E t \in Drivers : CycleSteps(t, {ZRise}, {5000 * MoneyScale}, ExpenseDraws)
    \/ reset_endpoint

Spec == Init /\ [][Next]_vars

\* The same operations run one at a time (a cycle, or a reset, from start to end
\* before the next starts), over more draws.
Quiet == \A t \in Drivers : pc[t] = "idle"

InitSerial == InitWith(BootPatterns)

NextSerial ==
    \/ Quiet /\ StartCycle("auto", MaxCycles)
    \/ CycleSteps("auto", {ZRise, ZFall}, IncomeDraws, ExpenseDraws)
    \/ Quiet /\ reset_endpoint

SpecSerial == InitSerial /\ [][NextSerial]_vars

----------------------------------------------------------------------------
(* The market on its own: the import-time bootstrap and step_market(). *)

\* step_market() calls per behaviour after the bootstrap.
MaxSteps == 4

\* Draws of the bootstrap that include a flat and a nearly flat step of INDEX.
BootFlat == <<ZRise, ZFlat, ZTiny>>

InitMarket == InitWith(BootPatterns \cup {BootFlat})

\* step_market(): every instrument moves with its own draw.
MarketStep ==
    /\ started < MaxSteps
    /\ \E zi \in {ZRise, ZFall, ZFlat, ZTiny}, zo \in {ZOther, ZFall} :
          _state' = step_market(_state, [INDEX |-> zi, STOCK_A |-> zo, STOCK_B |-> zo])
    /\ started' = started + 1
    /\ UNCHANGED <<SIM_STATE, _global_portfolio, pc, loc, probe>>

NextMarket == MarketStep

SpecMarket == InitMarket /\ [][NextMarket]_vars

\* The pairs (instrument, i) of consecutive entries i, i + 1 of a history.
Steps == {x \in Tickers \X (1..HistCap) : x[2] < Len(_state[x[1]].history)}

\* history[i + 1] - history[i] of the pair x.
Move(x) == _state[x[1]].history[x[2] + 1] - _state[x[1]].history[x[2]]

\* The pair x is a nudge: history[i + 1] = history[i] * (1 +- 0.003).
IsNudge(x) ==
    _state[x[1]].history[x[2] + 1] \in
        {Nudge(_state[x[1]].history[x[2]], 1), Nudge(_state[x[1]].history[x[2]], 0 - 1)}

\* 1e-6 * p on the price grid, rounded up: |d| >= 1e-6 * p iff |d| >= RelTol(p).
RelTol(p) == (p + 10^6 - 1) \div 10^6

\* C2: after the bootstrap and any number of step_market() calls, the current
\* price of every instrument and every price in every history is > 0.
C2_PricePositivity ==
    \A t \in Tickers :
        /\ _state[t].price > 0
        /\ \A i \in 1..Len(_state[t].history) : _state[t].history[i] > 0

\* C2 witness: steps were taken after the bootstrap, the cap has evicted an
\* entry, and some history holds a downward nudge.
C2_Witness ==
    /\ started = MaxSteps
    /\ Len(_state["INDEX"].history) = HistCap
    /\ \E x \in Steps : IsNudge(x) /\ Move(x) < 0

\* C3 as the spec states it: consecutive prices of every history differ by at
\* least 1e-6 of the earlier price, |p[i+1] - p[i]| >= 1e-6 * p[i].
C3_NoFlatRelative ==
    \A x \in Steps : Abs(Move(x)) >= RelTol(_state[x[1]].history[x[2]])

\* C3 as the code has it: consecutive prices of every history differ by at
\* least 1e-6 in absolute terms, or the later one is the 0.3 % nudge of the
\* earlier one; they are never equal.
C3_NoFlatAbsolute ==
    \A x \in Steps :
        /\ Move(x) # 0
        /\ Abs(Move(x)) >= FlatEps \/ IsNudge(x)

\* C3 witness: a history holds a step of at least 1e-6 that is below 1e-6 of
\* the price (kept as it is), and a nudge (a flat step replaced).
C3_Witness ==
    /\ \E x \in Steps :
          /\ Abs(Move(x)) >= FlatEps
          /\ Abs(Move(x)) < RelTol(_state[x[1]].history[x[2]])
    /\ \E x \in Steps : IsNudge(x)

----------------------------------------------------------------------------
(* The ledger on its own: Portfolio.buy and Portfolio.sell at the prices of a *)
(* bootstrapped market that does not move.                                    *)

\* buy and sell calls per behaviour.
MaxOps == 3

\* Amounts of money passed to buy and to sell.
BuyDraws == {0, 100 * MoneyScale}
SellDraws == {100 * MoneyScale, 1000 * MoneyScale}

\* What is recorded of a ledger call: the call, its result, and the units of
\* the ticker and the cash of the ledger before it.
LedgerCall(op, ticker, amount, pf, r) ==
    [op |-> op, ticker |-> ticker, amount |-> amount, res |-> r.res,
     held |-> Get(pf.positions, ticker, 0), cash |-> pf.cash]

\* The record of the last two calls.
Recorded(call) ==
    [last |-> call,
     prev |-> IF "last" \in DOMAIN probe THEN probe.last ELSE EmptyDict]

InitLedger == InitWith(BootPatterns)

\* buy(ticker, amount)
LedgerBuy ==
    /\ started < MaxOps
    /\ \E ticker \in Tickers, amount \in BuyDraws :
         \E r \in {PortfolioBuy(_global_portfolio, _state, ticker, amount)} :
            /\ _global_portfolio' = r.pf
            /\ probe' = Recorded(LedgerCall("buy", ticker, amount, _global_portfolio, r))
    /\ started' = started + 1
    /\ UNCHANGED <<_state, SIM_STATE, pc, loc>>

\* sell(ticker, amount)
LedgerSell ==
    /\ started < MaxOps
    /\ \E ticker \in Tickers, amount \in SellDraws :
         \E r \in {PortfolioSell(_global_portfolio, _state, ticker, amount)} :
            /\ _global_portfolio' = r.pf
            /\ probe' = Recorded(LedgerCall("sell", ticker, amount, _global_portfolio, r))
    /\ started' = started + 1
    /\ UNCHANGED <<_state, SIM_STATE, pc, loc>>

NextLedger == LedgerBuy \/ LedgerSell

SpecLedger == InitLedger /\ [][NextLedger]_vars

\* The last two calls are buy(sym, a), a > 0, on a ledger holding no units of
\* sym, and then sell(sym, b), b >= a, at the same price.
RoundTrip ==
    /\ "last" \in DOMAIN probe
    /\ "op" \in DOMAIN probe.prev
    /\ probe.prev.op = "buy"
    /\ probe.last.op = "sell"
    /\ probe.last.ticker = probe.prev.ticker
    /\ probe.prev.held = 0
    /\ probe.prev.amount > 0
    /\ probe.last.amount >= probe.prev.amount

\* C8 as the spec states it: the round trip buy(sym, a), sell(sym, b >= a) at
\* one price returns filled with amount a, removes sym from the mapping and
\* adds exactly a to the cash of the ledger.
C8_RoundTripExact ==
    RoundTrip =>
        /\ probe.last.res.status = "filled"
        /\ probe.last.res.amount = probe.prev.amount
        /\ probe.last.ticker \notin DOMAIN _global_portfolio.positions
        /\ _global_portfolio.cash = probe.last.cash + probe.prev.amount

\* C8 as the code has it: the round trip returns filled with the amount
\* min(b, units * p) for the units = a / p that were bought (a only up to the
\* rounding of the quotient and of the product), removes sym from the mapping
\* and adds the amount returned to the cash of the ledger.
C8_RoundTripRounded ==
    RoundTrip =>
        /\ probe.last.res.status = "filled"
        /\ probe.last.res.amount =
              Min(probe.last.amount,
                  CashFor(probe.prev.res.units, get_price(_state, probe.last.ticker)))
        /\ probe.last.ticker \notin DOMAIN _global_portfolio.positions
        /\ _global_portfolio.cash = probe.last.cash + probe.last.res.amount

\* C8 witness: a round trip whose sale returned an amount other than a.
C8_Witness ==
    /\ RoundTrip
    /\ probe.last.res.status = "filled"
    /\ probe.last.res.amount # probe.prev.amount

----------------------------------------------------------------------------
(* The pure functions of the policy on inputs drawn at the start:            *)
(* _compute_sip, evaluate_investment_opportunity, analyze_market and         *)
(* compute_reward.                                                           *)

\* Draws of the bootstrap, by the INDEX history they leave: a buy crossover at
\* volatility 0.025 with the forecast above and below the last price, buy and
\* sell crossovers at a volatility above 0.06, a steady fall, a steady rise
\* that ends in a jump, and a sell crossover at a volatility between 0.03 and
\* 0.06.
BootBuyMid  == <<1470000, 0 - 1030000>>
BootBuyDip  == <<0 - 1030000, 1470000>>
BootBuyWild == <<0 - 3030000, 3970000>>
BootSellWild == <<0 - 3970000, 3030000>>
BootFall    == <<ZFall>>
BootSellMid == <<0 - 1870000, 1230000>>
BootJump    == [i \in 1..BootSteps |-> IF i = BootSteps THEN 900000 ELSE ZRise]

PolicyPatterns ==
    {BootRise, <<1250000, 0 - 1250000>>, BootBuyMid, BootBuyDip, BootBuyWild,
     BootSellWild, BootFall, BootJump, BootSellMid}

\* The names passed as the risk profile: the three of risk_config and another.
Profiles == {"conservative", "balanced", "aggressive", "reckless"}

\* The account states passed to _compute_sip: with the keys of get_state, and
\* with the older keys only (no emergency_buffer, no volatility).
SipStates ==
    [bank_balance     : {1000 * MoneyScale, 11300 * MoneyScale},
     emergency_buffer : {900 * MoneyScale, 11100 * MoneyScale},
     monthly_income   : {0, 5000 * MoneyScale},
     volatility       : {100, 250, 600}]
    \cup
    [balance      : {1000 * MoneyScale},
     income_rate  : {5000 * MoneyScale},
     expense_rate : {0, 300 * MoneyScale}]

\* The account states passed to evaluate_investment_opportunity.
EvalStates ==
    [bank_balance     : {11100 * MoneyScale, 11300 * MoneyScale, 20000 * MoneyScale},
     emergency_buffer : {11100 * MoneyScale},
     monthly_income   : {5000 * MoneyScale},
     volatility       : {100},
     risk_profile     : Profiles \ {"reckless"}]
    \cup
    [bank_balance     : {11300 * MoneyScale},
     emergency_buffer : {11100 * MoneyScale},
     monthly_income   : {5000 * MoneyScale}]

\* The price lists passed to analyze_market: none, the histories of market m,
\* and the last 1, 4 and 19 prices of INDEX.
AnalyzeLists(m) ==
    {<<>>} \cup {get_history(m, t) : t \in Tickers}
           \cup {LastN(get_history(m, "INDEX"), k) : k \in {1, 4, 19}}

\* The states and results passed to compute_reward.
RewardStates ==
    [nav_history : {<<>>, <<1000 * MoneyScale>>,
                    <<1000 * MoneyScale, 1050 * MoneyScale>>,
                    <<900 * MoneyScale, 1050 * MoneyScale, 1000 * MoneyScale>>},
     last_invest_amount  : {0, 50 * MoneyScale},
     emergency_buffer_ok : BOOLEAN,
     volatility          : {300, 400, 500, 700, 800}]
    \cup {EmptyDict}

RewardResults ==
    {[status |-> "filled"], [status |-> "saved"], [status |-> "hold"], EmptyDict}

\* The states passed to plan: with the keys the fallback reads, and without.
PlanStates ==
    [bank_balance        : {11100 * MoneyScale, 11300 * MoneyScale},
     emergency_buffer    : {11100 * MoneyScale},
     monthly_income      : {5000 * MoneyScale},
     risk_profile        : {"balanced", "aggressive"},
     emergency_buffer_ok : BOOLEAN,
     income_rate         : {2500 * MoneyScale, 5000 * MoneyScale},
     expense_rate        : {3700 * MoneyScale}]
    \cup
    [bank_balance     : {11100 * MoneyScale, 11300 * MoneyScale},
     emergency_buffer : {11100 * MoneyScale},
     monthly_income   : {5000 * MoneyScale}]

\* A call that has not been made yet, and the call with its value.
Ask(fn, args) == [fn |-> fn, args |-> args, done |-> FALSE, out |-> EmptyDict]
Answer(out) == [probe EXCEPT !.done = TRUE, !.out = out]

\* The call recorded is fn, still to be made.
Asked(fn) == probe.fn = fn /\ ~probe.done
\* The call recorded is fn, and its value is known.
Answered(fn) == probe.fn = fn /\ probe.done

InitPolicy ==
    /\ \E pat \in PolicyPatterns : _state = _ensure_bootstrap(MarketLiteral, pat)
    /\ SIM_STATE = SimLiteral
    /\ _global_portfolio = NewPortfolio
    /\ pc = [t \in Drivers |-> "idle"]
    /\ loc = [t \in Drivers |-> NoLocals]
    /\ started = 0
    /\ \/ \E state \in SipStates, profile \in Profiles :
             probe = Ask("_compute_sip", [state |-> state, profile |-> profile])
       \/ \E state \in EvalStates :
             probe = Ask("evaluate_investment_opportunity", [state |-> state])
       \/ \E history \in AnalyzeLists(_state) :
             probe = Ask("analyze_market", [history |-> history])
       \/ \E state \in PlanStates : probe = Ask("plan", [state |-> state])
       \/ \E state \in RewardStates, result \in RewardResults :
             probe = Ask("compute_reward", [state |-> state, result |-> result])

ApplySip ==
    /\ Asked("_compute_sip")
    /\ probe' = Answer(_compute_sip(probe.args.state, probe.args.profile))
    /\ UNCHANGED <<_state, SIM_STATE, _global_portfolio, pc, loc, started>>

ApplyEvaluate ==
    /\ Asked("evaluate_investment_opportunity")
    /\ probe' = Answer(evaluate_investment_opportunity(_state, probe.args.state))
    /\ UNCHANGED <<_state, SIM_STATE, _global_portfolio, pc, loc, started>>

ApplyAnalyze ==
    /\ Asked("analyze_market")
    /\ probe' = Answer(analyze_market(probe.args.history))
    /\ UNCHANGED <<_state, SIM_STATE, _global_portfolio, pc, loc, started>>

ApplyReward ==
    /\ Asked("compute_reward")
    /\ probe' = Answer(compute_reward(probe.args.state, probe.args.result))
    /\ UNCHANGED <<_state, SIM_STATE, _global_portfolio, pc, loc, started>>

ApplyPlan ==
    /\ Asked("plan")
    /\ probe' = Answer(plan(_state, probe.args.state))
    /\ UNCHANGED <<_state, SIM_STATE, _global_portfolio, pc, loc, started>>

NextPolicy == ApplySip \/ ApplyEvaluate \/ ApplyAnalyze \/ ApplyReward \/ ApplyPlan

SpecPolicy == InitPolicy /\ [][NextPolicy]_vars

\* The state and the profile of the recorded call of _compute_sip, and the cash
\* and the emergency buffer the function reads off that state.
SipCash == Get(probe.args.state, "bank_balance", Get(probe.args.state, "balance", 0))
SipBuffer ==
    Get(probe.args.state, "emergency_buffer",
        DefaultBuffer(Get(probe.args.state, "monthly_expense",
                          Get(probe.args.state, "expense_rate", 0))))

\* C4 as the spec states it: for every account state and each of the three risk
\* profiles, the contribution _compute_sip returns is at most
\* max(0, cash - emergency_buffer).
C4_BufferRespected ==
    Answered("_compute_sip") /\ probe.args.profile \in DOMAIN risk_config
        => probe.out <= Max(0, SipCash - SipBuffer)

\* What the recorded call of evaluate_investment_opportunity works on: the INDEX
\* history, the signal, the profile's configuration and the contribution.
EvalHistory == get_history(_state, "INDEX")
EvalSignal == analyze_market(EvalHistory)
EvalCfg == RiskCfg(Get(probe.args.state, "risk_profile", "balanced"))
EvalSip == _compute_sip(probe.args.state, Get(probe.args.state, "risk_profile", "balanced"))

\* The five conditions of the lump-sum mode, as the spec lists them.
EvalAllHold ==
    /\ EvalSignal.signal = "buy"
    /\ EvalSignal.confidence >= 75
    /\ predict_price(EvalHistory) > Last(EvalHistory)
    /\ EvalSignal.volatility < EvalCfg.max_vol
    /\ EvalCfg.lumpsum_factor # 0

\* C6: evaluate_investment_opportunity returns mode lumpsum only when the signal
\* is buy, the confidence is >= 75, the forecast is above the last price, the
\* volatility is below the profile's max_vol and the profile's lumpsum_factor is
\* not 0; when all hold and the contribution is positive, the mode is lumpsum
\* and the amount is contribution x lumpsum_factor; when one fails, the mode is sip.
C6_LumpSumGating ==
    Answered("evaluate_investment_opportunity") =>
        /\ probe.out.mode = "lumpsum" => EvalAllHold
        /\ EvalAllHold /\ EvalSip > 0 =>
              /\ probe.out.mode = "lumpsum"
              /\ probe.out.amount = MulDiv(EvalSip, EvalCfg.lumpsum_factor, 10)
        /\ ~EvalAllHold => probe.out.mode = "sip"

\* C6 witness: a lump sum of twice a positive contribution was returned.
C6_Witness ==
    /\ Answered("evaluate_investment_opportunity")
    /\ probe.out.mode = "lumpsum"
    /\ EvalSip > 0
    /\ probe.out.amount = 2 * EvalSip

\* C7: for every non-empty price history of volatility > 0.06, analyze_market
\* returns hold with confidence 20, whatever the averages and the last price.
C7_VolatilityVeto ==
    Answered("analyze_market") /\ probe.args.history # <<>>
                               /\ _volatility(probe.args.history) > 600
        => probe.out.signal = "hold" /\ probe.out.confidence = 20

\* C7 witness: hold with confidence 20 was returned for a history of volatility
\* > 0.06 whose short average is above 1.01 x the long one and whose last price
\* is above the long average (a buy crossover).
C7_Witness ==
    /\ Answered("analyze_market")
    /\ Len(probe.args.history) >= SmaLong
    /\ _volatility(probe.args.history) > 600
    /\ _sma(probe.args.history, SmaShort) > MulDiv(_sma(probe.args.history, SmaLong), 101, 100)
    /\ Last(probe.args.history) > _sma(probe.args.history, SmaLong)
    /\ probe.out.signal = "hold" /\ probe.out.confidence = 20

\* The NAV history of the recorded call of compute_reward, and its last change
\* (0 below two entries).
RewardNav == Get(probe.args.state, "nav_history", <<>>)
RewardDnav ==
    IF Len(RewardNav) >= 2 THEN RewardNav[Len(RewardNav)] - RewardNav[Len(RewardNav) - 1]
    ELSE 0

\* C9: compute_reward is the plain sum: dnav when last_invest_amount > 0 and
\* 0.2 x dnav otherwise, minus 0.5 when the emergency buffer is broken, minus
\* 0.2 when volatility > 0.04, minus 0.5 more when volatility > 0.07, plus 0.05
\* when the result is filled or saved; nothing is clamped.
C9_RewardSum ==
    Answered("compute_reward") =>
        probe.out =
            (IF Get(probe.args.state, "last_invest_amount", 0) > 0
             THEN RewardDnav * (RewardScale \div MoneyScale)
             ELSE (RewardDnav * (RewardScale \div MoneyScale)) \div 5)
          - (IF Get(probe.args.state, "emergency_buffer_ok", TRUE) THEN 0
             ELSE RewardScale \div 2)
          - (IF Get(probe.args.state, "volatility", 0) > 400 THEN RewardScale \div 5 ELSE 0)
          - (IF Get(probe.args.state, "volatility", 0) > 700 THEN RewardScale \div 2 ELSE 0)
          + (IF Get(probe.args.result, "status", "") \in {"filled", "saved"}
             THEN RewardScale \div 20 ELSE 0)

\* C9 witness: NAV [1000, 1050] with last_invest_amount 50, a broken buffer, a
\* volatility above 0.07 and a filled result: 50 - 0.5 - 0.2 - 0.5 + 0.05.
C9_Witness ==
    /\ Answered("compute_reward")
    /\ RewardNav = <<1000 * MoneyScale, 1050 * MoneyScale>>
    /\ Get(probe.args.state, "last_invest_amount", 0) = 50 * MoneyScale
    /\ probe.args.state.volatility > 700
    /\ ~probe.args.state.emergency_buffer_ok
    /\ Get(probe.args.result, "status", "") = "filled"
    /\ probe.out = 50 * RewardScale - RewardScale \div 2 - RewardScale \div 5
                       - RewardScale \div 2 + RewardScale \div 20

----------------------------------------------------------------------------
(* Claims about run_cycle and its drivers. *)

C5_BufferKept ==
    pc["auto"] = "update_nav" /\ loc["auto"].plan_out.action = "invest"
        => SIM_STATE.bank_balance >= loc["auto"].state.emergency_buffer

\* The result of the run_cycle that has just ended, and the amount it invested.
CycleEnded == pc["auto"] = "idle" /\ loc["auto"].result # EmptyDict
AmountInvested ==
    IF Get(loc["auto"].result, "status", "") = "filled"
    THEN Get(loc["auto"].result, "amount", 0)
    ELSE 0

\* C10 as the spec states it: a run_cycle whose execute step invested a positive
\* amount, with at least two entries in the NAV history, returns the reward
\* with the full NAV change: that of a state whose last_invest_amount is the
\* amount invested.
C10_FullCredit ==
    CycleEnded /\ AmountInvested > 0 /\ Len(NavHistoryOf("auto")) >= 2
        => loc["auto"].reward =
               compute_reward(StateOf("auto") @@ ("last_invest_amount" :> AmountInvested),
                              loc["auto"].result)

----------------------------------------------------------------------------
(* Claims about POST /reset. *)

\* C11: from any reachable state, a reset leaves the account state that a
\* second reset would leave again: bank balance 10000, balance history
\* [10000], the other series empty, invested amount 0, last suggested SIP 0.
C11_ResetIdempotent ==
    [][reset_endpoint =>
          /\ reset_sim_state(SIM_STATE') = SIM_STATE'
          /\ SIM_STATE'.bank_balance = 10000 * MoneyScale
          /\ SIM_STATE'.balance_history = <<10000 * MoneyScale>>
          /\ \A k \in {"income_history", "expense_history", "sip_history",
                       "lumpsum_history", "nav_history"} : SIM_STATE'[k] = <<>>
          /\ SIM_STATE'.invested_amount = 0
          /\ SIM_STATE'.last_sip_suggested = 0]_vars

\* C11 witness: a cycle has ended and its NAV point is gone: a reset has been
\* served after it, and the account state is the one a reset leaves.
C11_Witness ==
    /\ \E t \in Drivers : pc[t] = "idle" /\ loc[t].result # EmptyDict
    /\ SIM_STATE.nav_history = <<>>
    /\ SIM_STATE = reset_sim_state(SIM_STATE)

\* C12 as the spec states it: a reset leaves the ledger with no units of any
\* instrument and with its initial cash.
C12_ResetClearsPortfolio ==
    [][reset_endpoint => _global_portfolio' = NewPortfolio]_vars

\* C13: a reset leaves the price, the history, the drift and the volatility of
\* every instrument as they were.
C13_ResetKeepsMarket ==
    [][reset_endpoint => \A t \in Tickers : _state'[t] = _state[t]]_vars

\* C13 witness: the market has moved since its bootstrap and a reset has been
\* served during a cycle (the cycle's state dict holds the list the reset
\* replaced).
C13_Witness ==
    /\ \E t \in Drivers : loc[t].state # EmptyDict /\ ~loc[t].nav_alias
    /\ Len(_state["INDEX"].history) > BootSteps
    /\ SIM_STATE.income_history = <<>>

----------------------------------------------------------------------------
(* run_cycle when a write to the database fails: db.execute raises in        *)
(* _log_transaction or _persist_balance, and nothing catches it.             *)

\* The writes of simulate_income_and_expense a failure can interrupt: the log
\* of the income, the log of the expense, and the balance.
WritePoints == {"income", "expense", "balance"}

\* SIM_STATE as simulate_income_and_expense leaves it when the write at point
\* raises: the assignments before that write are done, the later ones are not.
CashFlowInterrupted(S, income, expense, point) ==
    CASE point = "income" ->
             [S EXCEPT !.bank_balance   = S.bank_balance + income,
                       !.income_history = Append(S.income_history, income)]
      [] point = "expense" ->
             [S EXCEPT !.bank_balance    = S.bank_balance + income - expense,
                       !.income_history  = Append(S.income_history, income),
                       !.expense_history = Append(S.expense_history, expense)]
      [] OTHER -> CashFlowWrites(S, income, expense)

\* The exception leaves run_cycle: the cycle ends with no value returned.
Raised(t) ==
    /\ pc' = [pc EXCEPT ![t] = "idle"]
    /\ loc' = [loc EXCEPT ![t].raised = TRUE]

\* 2) simulate_income_and_expense(timestamp) with a write that fails.
CycleCashFlowFails(t, Incomes, Expenses) ==
    /\ pc[t] = "cashflow"
    /\ \E inc \in Incomes, exp \in Expenses, point \in WritePoints :
          SIM_STATE' = CashFlowInterrupted(SIM_STATE, Max(0, inc), Max(0, exp), point)
    /\ Raised(t)
    /\ UNCHANGED <<_state, _global_portfolio, started, probe>>

\* 5) execute(plan_out, state) with a failing log of the investment or of the
\* repayment: the bank balance is already debited (and the series appended to),
\* nothing is bought.
CycleExecuteFails(t) ==
    /\ pc[t] = "execute"
    /\ \/ /\ loc[t].plan_out.action = "invest" /\ loc[t].plan_out.invest_amount > 0
          /\ \E amt \in {Min(loc[t].plan_out.invest_amount, SIM_STATE.bank_balance)} :
                SIM_STATE' =
                    [SIM_STATE EXCEPT
                        !.bank_balance = @ - amt,
                        !.sip_history = Append(@, IF loc[t].plan_out.invest_mode = "lumpsum"
                                                  THEN 0 ELSE amt),
                        !.lumpsum_history = Append(@, IF loc[t].plan_out.invest_mode = "lumpsum"
                                                      THEN amt ELSE 0)]
       \/ /\ loc[t].plan_out.action = "repay"
          /\ SIM_STATE' = [SIM_STATE EXCEPT
                              !.bank_balance = @ - Max(0, loc[t].plan_out.invest_amount)]
    /\ Raised(t)
    /\ UNCHANGED <<_state, _global_portfolio, started, probe>>

\* Cycles and resets one at a time, with a database whose writes can fail.
NextDegraded ==
    \/ NextSerial
    \/ CycleCashFlowFails("auto", {5000 * MoneyScale}, ExpenseDraws \cup {5200 * MoneyScale})
    \/ CycleExecuteFails("auto")

SpecDegraded == InitSerial /\ [][NextDegraded]_vars

\* C14 as the spec states it: every run_cycle that was started and is no longer
\* running has returned, and its result carries one of the six statuses.
C14_AlwaysAResult ==
    pc["auto"] = "idle" /\ started > 0 =>
        /\ ~loc["auto"].raised
        /\ Get(loc["auto"].result, "status", "") \in
               {"filled", "noop", "failed", "saved", "repaid", "hold"}

----------------------------------------------------------------------------
(* The snapshot queries of backend/main.py: GET /state, /portfolio, /market. *)

\* The dict get_portfolio builds; the percentage in hundredths of a percent.
PortfolioView(S, positions, total_value, nav_hist) ==
    [cash            |-> S.bank_balance,
     positions       |-> positions,
     value           |-> total_value,
     invested_amount |-> S.invested_amount,
     absolute_profit_loss   |-> total_value - S.invested_amount,
     percentage_profit_loss |->
         IF S.invested_amount > 0
         THEN MulDiv(total_value - S.invested_amount, 100 * 100, S.invested_amount)
         ELSE 0,
     daily_profit_loss |->
         IF Len(nav_hist) >= 2 THEN nav_hist[Len(nav_hist)] - nav_hist[Len(nav_hist) - 1]
         ELSE 0,
     sip_suggested_amount |-> S.last_sip_suggested,
     cashflow_inflow  |-> SumSeq(S.income_history),
     cashflow_outflow |-> SumSeq(S.expense_history)]

\* get_portfolio()
get_portfolio(m, pf, S) ==
    PortfolioView(S, pf.positions, S.bank_balance + portfolio_value(pf, m), S.nav_history)

\* The dict get_market builds from the metrics of INDEX and the series.
MarketView(metrics, S) ==
    [price_history   |-> metrics.hist,
     current_price   |-> metrics.current,
     volatility      |-> metrics.vol,
     return_rate     |-> metrics.ret,
     nav_history     |-> S.nav_history,
     sip_history     |-> S.sip_history,
     lumpsum_history |-> S.lumpsum_history,
     income_history  |-> S.income_history,
     expense_history |-> S.expense_history,
     balance_history |-> S.balance_history]

\* get_market()
get_market(m, S) == MarketView(get_index_metrics(m), S)

\* The value a query has returned.
Reply(fn, out) == [fn |-> fn, args |-> EmptyDict, done |-> TRUE, out |-> out]

\* GET /state: utils.get_state(), which stores the suggestion it recomputes.
get_state_endpoint ==
    /\ \E g \in {get_state(_state, _global_portfolio, SIM_STATE)} :
          /\ SIM_STATE' = g.S
          /\ probe' = Reply("get_state", g.state)
    /\ UNCHANGED <<_state, _global_portfolio, pc, loc, started>>

\* GET /portfolio: utils.get_portfolio()
get_portfolio_endpoint ==
    /\ probe' = Reply("get_portfolio", get_portfolio(_state, _global_portfolio, SIM_STATE))
    /\ UNCHANGED <<_state, SIM_STATE, _global_portfolio, pc, loc, started>>

\* GET /market: utils.get_market(); get_index_metrics() calls
\* _ensure_bootstrap(), which steps the market when INDEX has no history.
get_market_endpoint ==
    /\ \E pat \in BootPatterns : _state' = _ensure_bootstrap(_state, pat)
    /\ probe' = Reply("get_market", get_market(_state', SIM_STATE))
    /\ UNCHANGED <<SIM_STATE, _global_portfolio, pc, loc, started>>

\* A query is served.
Query == get_state_endpoint \/ get_portfolio_endpoint \/ get_market_endpoint

\* run_cycle invocations per behaviour while queries are served.
MaxQueryCycles == 1

\* Cycles and resets one at a time, and the queries at any time.
NextQueries ==
    \/ Quiet /\ StartCycle("auto", MaxQueryCycles)
    \/ CycleSteps("auto", {ZRise, ZFall}, {5000 * MoneyScale}, ExpenseDraws)
    \/ Quiet /\ reset_endpoint
    \/ get_state_endpoint
    \/ get_portfolio_endpoint
    \/ get_market_endpoint

SpecQueries == Init /\ [][NextQueries]_vars

\* C15 as the spec states it: get_state, get_portfolio and get_market leave every
\* field of the account state, the portfolio and the market unchanged.
C15_QueriesReadOnly ==
    [][Query => UNCHANGED <<SIM_STATE, _global_portfolio, _state>>]_vars

----------------------------------------------------------------------------
(* Claims about plan and execute. *)

\* What the evaluator returns for the state of the recorded call of plan.
PlanInv == evaluate_investment_opportunity(_state, probe.args.state)

\* C16: the action of plan is invest when the evaluator's should_invest is
\* true; otherwise save when the emergency buffer is broken; otherwise repay
\* when the expense rate is above the income rate; otherwise hold. The amount,
\* the mode and the ticker are the evaluator's when the action is invest, and
\* 0, sip and INDEX when it is not.
C16_PlanActionMapping ==
    Answered("plan") =>
        /\ probe.out.action =
               IF PlanInv.should_invest THEN "invest"
               ELSE IF ~Get(probe.args.state, "emergency_buffer_ok", TRUE) THEN "save"
               ELSE IF Get(probe.args.state, "expense_rate", 0)
                           > Get(probe.args.state, "income_rate", 0) THEN "repay"
               ELSE "hold"
        /\ probe.out.action = "invest" =>
               /\ probe.out.invest_amount = PlanInv.amount
               /\ probe.out.invest_mode = PlanInv.mode
               /\ probe.out.ticker = PlanInv.ticker
        /\ probe.out.action # "invest" =>
               /\ probe.out.invest_amount = 0
               /\ probe.out.invest_mode = "sip"
               /\ probe.out.ticker = "INDEX"

\* C16 witness: plan chose save for a state whose buffer is broken and whose
\* expense rate is above its income rate.
C16_Witness ==
    /\ Answered("plan")
    /\ ~PlanInv.should_invest
    /\ ~Get(probe.args.state, "emergency_buffer_ok", TRUE)
    /\ Get(probe.args.state, "expense_rate", 0) > Get(probe.args.state, "income_rate", 0)
    /\ probe.out.action = "save"

----------------------------------------------------------------------------
(* execute on its own: one call on an account, a ledger and a plan drawn at  *)
(* the start.                                                                *)

\* The bank balances execute is called at: none, less than the planned
\* amounts, and more.
ExecCash == {0, 100 * MoneyScale, 10000 * MoneyScale}

\* The ledgers execute is called at: empty, and holding one unit of INDEX.
ExecLedgers == {NewPortfolio, [cash |-> 0, positions |-> [INDEX |-> UnitScale]]}

\* The plans passed to execute.
ExecPlans ==
    [action        : {"invest"},
     invest_amount : {0, 300 * MoneyScale, 720 * MoneyScale},
     invest_mode   : {"sip", "lumpsum"},
     ticker        : {"INDEX", "STOCK_A"}]
    \cup
    {[action |-> "repay", invest_amount |-> 0, invest_mode |-> "sip", ticker |-> "INDEX"],
     [action |-> "save", invest_amount |-> 0, invest_mode |-> "sip", ticker |-> "INDEX"],
     [action |-> "hold", invest_amount |-> 0, invest_mode |-> "sip", ticker |-> "INDEX"],
     [action |-> "invest", invest_amount |-> 300 * MoneyScale],
     EmptyDict}

InitExecute ==
    /\ \E pat \in BootPatterns : _state = _ensure_bootstrap(MarketLiteral, pat)
    /\ \E c \in ExecCash :
          SIM_STATE = [SimLiteral EXCEPT !.bank_balance = c, !.balance_history = <<c>>]
    /\ _global_portfolio \in ExecLedgers
    /\ pc = [t \in Drivers |-> "idle"]
    /\ loc = [t \in Drivers |-> NoLocals]
    /\ started = 0
    /\ \E plan_out \in ExecPlans : probe = Ask("execute", [plan |-> plan_out])

ApplyExecute ==
    /\ Asked("execute")
    /\ \E e \in {execute(_state, _global_portfolio, SIM_STATE, probe.args.plan)} :
          /\ SIM_STATE' = e.S
          /\ _global_portfolio' = e.pf
          /\ probe' = Answer(e.res)
    /\ UNCHANGED <<_state, pc, loc, started>>

NextExecute == ApplyExecute

SpecExecute == InitExecute /\ [][NextExecute]_vars

\* The amount, the mode and the ticker execute reads off the recorded plan.
ExecAmount == Get(probe.args.plan, "invest_amount", 0)
ExecMode == Get(probe.args.plan, "invest_mode", "sip")
ExecTicker == Get(probe.args.plan, "ticker", "INDEX")

----------------------------------------------------------------------------
(* run_cycle after run_cycle, with no reset in between. *)

NextCycles ==
    \/ StartCycle("auto", MaxCycles)
    \/ CycleSteps("auto", {ZRise, ZFall}, IncomeDraws, ExpenseDraws)

SpecCycles == InitSerial /\ [][NextCycles]_vars

\* The steps of run_cycle in the order of its code, and the number of them the
\* cycle in flight has taken.
StepOrder ==
    <<"step_market", "cashflow", "observe", "plan", "execute", "update_nav", "reward">>
StepsTaken == IF pc["auto"] = "idle" THEN 0
              ELSE (CHOOSE i \in 1..Len(StepOrder) : StepOrder[i] = pc["auto"]) - 1

\* The cycles of which step number i has been taken: the cycles that ended, and
\* the one in flight when it is past that step.
CyclesPast(i) ==
    IF pc["auto"] = "idle" THEN started
    ELSE started - 1 + (IF StepsTaken >= i THEN 1 ELSE 0)

\* C18: each run_cycle takes its steps once and in the order advance market,
\* cash-flow, observe, plan, execute, update valuation, reward: every price has
\* been stepped once per cycle past its first step, one income and one expense
\* have been appended per cycle past its second step, one NAV point per cycle
\* past its sixth step (after execute, whose result is known, and before the
\* reward), and the state, the plan and the result exist from the third, the
\* fourth and the fifth step on.
C18_StepsOnceInOrder ==
    /\ \A t \in Tickers :
          Len(_state[t].history) = Min(HistCap, BootSteps + CyclesPast(1))
    /\ Len(SIM_STATE.income_history) = CyclesPast(2)
    /\ Len(SIM_STATE.expense_history) = CyclesPast(2)
    /\ Len(SIM_STATE.nav_history) = CyclesPast(6)
    /\ pc["auto"] # "idle" =>
          /\ (loc["auto"].cash_flows # EmptyDict) = (StepsTaken >= 2)
          /\ (loc["auto"].state # EmptyDict) = (StepsTaken >= 3)
          /\ (loc["auto"].plan_out # EmptyDict) = (StepsTaken >= 4)
          /\ (loc["auto"].result # EmptyDict) = (StepsTaken >= 5)
          /\ ("nav" \in DOMAIN loc["auto"].state) = (StepsTaken >= 6)

\* C18 witness: the last of the cycles has ended with a result, and the NAV
\* history holds one point per cycle.
C18_Witness ==
    /\ started = MaxCycles /\ pc["auto"] = "idle"
    /\ loc["auto"].result # EmptyDict
    /\ "nav" \in DOMAIN loc["auto"].state
    /\ Len(SIM_STATE.nav_history) = MaxCycles
    /\ Len(SIM_STATE.income_history) = MaxCycles

----------------------------------------------------------------------------
(* Claims about the histories of the market and the positions of the ledger. *)

\* C19: after any number of steps every history holds at most the cap of
\* prices and ends with the current price, and a step appends the new price at
\* the end, evicting the oldest entry when the cap would be exceeded (so the
\* entries stay in the order of the steps).
C19_BoundedHistory ==
    /\ [](\A t \in Tickers :
             /\ Len(_state[t].history) <= HistCap
             /\ _state[t].history # <<>>
             /\ Last(_state[t].history) = _state[t].price)
    /\ [][MarketStep =>
             \A t \in Tickers :
                 _state'[t].history =
                     IF Len(_state[t].history) >= HistCap
                     THEN Append(Tail(_state[t].history), _state'[t].price)
                     ELSE Append(_state[t].history, _state'[t].price)]_vars

\* C19 witness: more steps were taken than the cap holds, and every history is
\* at the cap and ends with the current price.
C19_Witness ==
    /\ BootSteps + started > HistCap
    /\ \A t \in Tickers :
          /\ Len(_state[t].history) = HistCap
          /\ Last(_state[t].history) = _state[t].price

SigHistory == probe.args.history
SigShort == _sma(SigHistory, SmaShort)
SigLong == _sma(SigHistory, SmaLong)
SigVol == _volatility(SigHistory)

\* The recorded history holds a buy crossover: short > 1.01 x long, price > long.
SigBuy ==
    /\ Len(SigHistory) >= SmaLong
    /\ SigShort > MulDiv(SigLong, 101, 100)
    /\ Last(SigHistory) > SigLong

\* The recorded history holds a sell crossover: short < 0.99 x long, price < long.
SigSell ==
    /\ Len(SigHistory) >= SmaLong
    /\ SigShort < MulDiv(SigLong, 99, 100)
    /\ Last(SigHistory) < SigLong

\* C21: for every non-empty history of volatility <= 0.06, analyze_market
\* returns buy on a buy crossover, with confidence 70, or 90 when the
\* volatility is < 0.02; sell on a sell crossover, with confidence 70, or 90
\* when the volatility is > 0.03; hold with confidence 10 otherwise; and the
\* confidence of every answer is an integer in [0, 100].
C21_SignalRule ==
    Answered("analyze_market") =>
        /\ probe.out.confidence \in 0..100
        /\ SigHistory # <<>> /\ SigVol <= 600 =>
              /\ probe.out.signal =
                    IF SigBuy THEN "buy" ELSE IF SigSell THEN "sell" ELSE "hold"
              /\ probe.out.confidence =
                    IF SigBuy THEN (IF SigVol < 200 THEN 90 ELSE 70)
                    ELSE IF SigSell THEN (IF SigVol > 300 THEN 90 ELSE 70)
                    ELSE 10

\* C21 witness: sell was returned with confidence 70 for a sell crossover of
\* volatility < 0.02.
C21_Witness ==
    /\ Answered("analyze_market")
    /\ SigSell /\ SigVol < 200
    /\ probe.out.signal = "sell" /\ probe.out.confidence = 70

(* ------------------------------------------------------------------ *)
(* Failed trades                                                       *)
(* ------------------------------------------------------------------ *)

\* The price of every instrument is positive, so that Portfolio.buy never takes
\* its branch for a non-positive price: no cycle ends with the status failed.
NoFailedTrade ==
    /\ \A t \in Tickers : _state[t].price > 0
    /\ \A t \in Drivers : Get(loc[t].result, "status", "") # "failed"

(* ------------------------------------------------------------------ *)
(* Readers and settings of the market                                  *)
(* ------------------------------------------------------------------ *)

\* The band of set_index_volatility, on the grid of sigma: 0.005 and 0.05.
SigmaMin == 500000
SigmaMax == 5000000

\* A faulty clamp, with the upper end of the band left out.
ClampFromBelow(sigma) == Max(SigmaMin, sigma)

\* max(0.005, min(0.05, float(sigma)))
ClampSigma(sigma) == Max(SigmaMin, Min(SigmaMax, sigma))

\* set_index_volatility(sigma) on the market m: only INDEX's sigma is assigned.
SetSigma(m, sigma) == [m EXCEPT !["INDEX"].sigma = ClampSigma(sigma)]

\* The instrument a symbol is read from: `if ticker not in _state: ticker = "INDEX"`.
Resolve(ticker) == IF ticker \in Tickers THEN ticker ELSE "INDEX"

\* A faulty get_history that returns the stored list itself: the list object
\* returned is the one instrument `shares` keeps.
ListShared(m, ticker) ==
    [list |-> get_history(m, ticker), shares |-> Resolve(ticker), mutated |-> FALSE]

\* list(_state[ticker]["history"]): a new list object with the stored prices,
\* which no instrument keeps.
ListCopy(m, ticker) ==
    [list |-> get_history(m, ticker), shares |-> "", mutated |-> FALSE]

\* The symbols readers ask for: the three instruments and an unknown one.
Symbols == Tickers \cup {"GOLD"}

\* The values passed to set_index_volatility: below, at the ends of, within and
\* above the band.
SigmaDraws ==
    {0 - 1000000, 0, SigmaMin - 1, SigmaMin, 2000000, SigmaMax, SigmaMax + 1, 90000000}

\* Steps of the market per behaviour while it is read.
MaxReadSteps == 2

\* The call recorded: fn(ticker) with its value.
Read(fn, ticker, out) ==
    [fn |-> fn, args |-> [ticker |-> ticker], done |-> TRUE, out |-> out]

\* get_price(ticker)
ReadPrice ==
    /\ \E ticker \in Symbols : probe' = Read("get_price", ticker, get_price(_state, ticker))
    /\ UNCHANGED <<_state, SIM_STATE, _global_portfolio, pc, loc, started>>

\* get_history(ticker)
ReadHistory ==
    /\ \E ticker \in Symbols : probe' = Read("get_history", ticker, ListCopy(_state, ticker))
    /\ UNCHANGED <<_state, SIM_STATE, _global_portfolio, pc, loc, started>>

\* What a caller may do to a list it holds: append a price to it, or clear it.
Mutations(list) == {Append(list, PriceScale), <<>>}

\* The caller of get_history changes the list it was given; an instrument that
\* keeps the same list object sees the change.
CallerMutates ==
    /\ probe # EmptyDict
    /\ probe.fn = "get_history" /\ ~probe.out.mutated
    /\ \E new \in Mutations(probe.out.list) :
          /\ probe' = [probe EXCEPT !.out.list = new, !.out.mutated = TRUE]
          /\ _state' = IF probe.out.shares \in Tickers
                       THEN [_state EXCEPT ![probe.out.shares].history = new]
                       ELSE _state
    /\ UNCHANGED <<SIM_STATE, _global_portfolio, pc, loc, started>>

\* get_index_metrics(): _ensure_bootstrap(), then the INDEX history is read.
ReadMetrics ==
    /\ \E m \in {_ensure_bootstrap(_state, pat) : pat \in BootPatterns} :
          /\ _state' = m
          /\ probe' = Read("get_index_metrics", "INDEX", get_index_metrics(m))
    /\ UNCHANGED <<SIM_STATE, _global_portfolio, pc, loc, started>>

\* set_index_volatility(sigma)
set_index_volatility ==
    /\ \E sigma \in SigmaDraws :
          /\ _state' = SetSigma(_state, sigma)
          /\ probe' = [fn |-> "set_index_volatility", args |-> [sigma |-> sigma],
                       done |-> TRUE, out |-> EmptyDict]
    /\ UNCHANGED <<SIM_STATE, _global_portfolio, pc, loc, started>>

\* step_market() while the market is read.
ReaderStep ==
    /\ started < MaxReadSteps
    /\ _state' = step_market(_state, [INDEX |-> ZFall, STOCK_A |-> ZOther, STOCK_B |-> ZOther])
    /\ started' = started + 1
    /\ UNCHANGED <<SIM_STATE, _global_portfolio, pc, loc, probe>>

NextReaders ==
    \/ ReadPrice
    \/ ReadHistory
    \/ CallerMutates
    \/ ReadMetrics
    \/ set_index_volatility
    \/ ReaderStep

SpecReaders == InitWith(BootPatterns) /\ [][NextReaders]_vars

\* C23: get_price and get_history, for known and unknown symbols, leave the
\* price and the history of every instrument unchanged and answer for INDEX when
\* the symbol is unknown; a change the caller makes to the list get_history
\* returned leaves the stored histories unchanged.
C23_ReadsDoNotMutate ==
    [][/\ ReadPrice \/ ReadHistory \/ CallerMutates => _state' = _state
       /\ ReadPrice => probe'.out = _state[Resolve(probe'.args.ticker)].price
       /\ ReadHistory => probe'.out.list = _state[Resolve(probe'.args.ticker)].history
      ]_vars

\* C23 witness: the list returned for an unknown symbol held INDEX's history,
\* the caller has changed it, and INDEX's stored history is not the changed list.
C23_Witness ==
    /\ probe # EmptyDict
    /\ probe.fn = "get_history" /\ probe.args.ticker \notin Tickers
    /\ probe.out.mutated
    /\ probe.out.list # _state["INDEX"].history
    /\ Len(_state["INDEX"].history) >= BootSteps

\* C24: after set_index_volatility(sigma), for any sigma, INDEX's sigma is
\* max(0.005, min(0.05, sigma)), which lies in [0.005, 0.05]; the sigma of the
\* other instruments and every price and history are as before the call.
C24_SetVolatilityClamps ==
    [][set_index_volatility =>
          /\ _state'["INDEX"].sigma =
                (IF probe'.args.sigma < SigmaMin THEN SigmaMin
                 ELSE IF probe'.args.sigma > SigmaMax THEN SigmaMax
                 ELSE probe'.args.sigma)
          /\ _state'["INDEX"].sigma >= SigmaMin
          /\ _state'["INDEX"].sigma <= SigmaMax
          /\ \A t \in Tickers :
                /\ _state'[t].price = _state[t].price
                /\ _state'[t].history = _state[t].history
                /\ _state'[t].mu = _state[t].mu
                /\ t # "INDEX" => _state'[t].sigma = _state[t].sigma
      ]_vars

\* C24 witness: set_index_volatility was called with a sigma above the band and
\* INDEX's sigma is 0.05.
C24_Witness ==
    /\ probe # EmptyDict
    /\ probe.fn = "set_index_volatility" /\ probe.args.sigma > SigmaMax
    /\ _state["INDEX"].sigma = SigmaMax

\* C25: before and after every step of the program INDEX's history holds at
\* least as many prices as the bootstrap makes (200 in the code);
\* get_index_metrics returns the stored history, never an empty one, and it
\* steps the market only when INDEX's history is empty.
C25_Bootstrapped ==
    [][/\ Len(_state["INDEX"].history) >= BootSteps
       /\ Len(_state'["INDEX"].history) >= BootSteps
       /\ probe' # EmptyDict /\ probe'.fn = "get_index_metrics" /\ ReadMetrics =>
             /\ _state' # _state => _state["INDEX"].history = <<>>
             /\ probe'.out.hist = _state'["INDEX"].history
             /\ Len(probe'.out.hist) >= BootSteps
      ]_vars

\* C25 witness: get_index_metrics was called after the market had been stepped
\* and returned the whole stored history.
C25_Witness ==
    /\ probe # EmptyDict
    /\ probe.fn = "get_index_metrics"
    /\ started = MaxReadSteps
    /\ Len(probe.out.hist) >= BootSteps
    /\ probe.out.hist = _state["INDEX"].history

(* ------------------------------------------------------------------ *)
(* The account: cycles, manual transactions and resets, one at a time  *)
(* ------------------------------------------------------------------ *)

\* Cycles and manual transactions per behaviour.
MaxAccountOps == 2

\* The transactions posted: the types insert_transaction tells apart and
\* others, with and without an amount, which may be negative.
TxDraws ==
    [type : {"income", "expense", "repay", "sip", "Income", "REPAY"},
     amount : {250 * MoneyScale, 0 - 100 * MoneyScale}]
    \cup {EmptyDict, [amount |-> 250 * MoneyScale]}

\* POST /transactions: utils.insert_transaction(tx)
create_transaction_endpoint ==
    /\ started < MaxAccountOps
    /\ \E tx \in TxDraws :
          /\ SIM_STATE' = insert_transaction(_state, _global_portfolio, SIM_STATE, tx)
          /\ probe' = [fn |-> "insert_transaction", args |-> [tx |-> tx],
                       done |-> TRUE, out |-> EmptyDict]
    /\ started' = started + 1
    /\ UNCHANGED <<_state, _global_portfolio, pc, loc>>

NextAccount ==
    \/ Quiet /\ StartCycle("auto", MaxAccountOps)
    \/ CycleSteps("auto", {ZRise, ZFall}, IncomeDraws, ExpenseDraws)
    \/ Quiet /\ create_transaction_endpoint
    \/ Quiet /\ reset_endpoint

SpecAccount == InitSerial /\ [][NextAccount]_vars

\* The sum of the entries of both contribution series.
Contributed == SumSeq(SIM_STATE.sip_history) + SumSeq(SIM_STATE.lumpsum_history)

\* A cycle has invested: its result is a filled trade.
HasInvested == Get(loc["auto"].result, "status", "") = "filled"

\* C26: whenever no operation is in flight, after any cycles, manual
\* transactions and resets run one at a time, bank balance = 10000 +
\* sum(income history) - sum(expense history) - cumulative invested amount.
C26_CashAccounting ==
    Quiet =>
        SIM_STATE.bank_balance =
            10000 * MoneyScale + SumSeq(SIM_STATE.income_history)
                               - SumSeq(SIM_STATE.expense_history)
                               - SIM_STATE.invested_amount

\* C26 witness: a cycle that invested has ended, a manual repay was recorded
\* after it, and the balance is not the initial one.
C26_Witness ==
    /\ Quiet /\ HasInvested
    /\ SIM_STATE.invested_amount > 0
    /\ probe # EmptyDict /\ TxType(probe.args.tx) = "repay"
    /\ Len(SIM_STATE.expense_history) = 2
    /\ SIM_STATE.bank_balance # 10000 * MoneyScale

\* C27: after every completed cash-flow synthesis, investment, repay, manual
\* transaction and reset the balance history is not empty and its last entry
\* is the bank balance.
C27_BalanceHistoryTracks ==
    /\ SIM_STATE.balance_history # <<>>
    /\ Last(SIM_STATE.balance_history) = SIM_STATE.bank_balance

\* C27 witness: a cycle has synthesized its cash flows and invested, a manual
\* transaction that changes the balance followed, and the last entry of the
\* balance history is the balance, which differs from the entry before it.
C27_Witness ==
    /\ Quiet /\ HasInvested
    /\ probe # EmptyDict /\ TxType(probe.args.tx) \in {"income", "expense", "repay"}
    /\ Len(SIM_STATE.balance_history) = 4
    /\ SIM_STATE.balance_history[4] = SIM_STATE.bank_balance
    /\ SIM_STATE.balance_history[3] # SIM_STATE.bank_balance

\* C28: the SIP series and the lump-sum series have the same length, at every
\* index at most one of the two entries is not 0, and the cumulative invested
\* amount is the sum of all entries of both series.
C28_SeriesAligned ==
    /\ Len(SIM_STATE.sip_history) = Len(SIM_STATE.lumpsum_history)
    /\ \A i \in 1..Len(SIM_STATE.sip_history) :
          SIM_STATE.sip_history[i] = 0 \/ SIM_STATE.lumpsum_history[i] = 0
    /\ SIM_STATE.invested_amount = Contributed

\* C28 witness: two cycles have invested, one as SIP and one as a lump sum.
C28_Witness ==
    /\ Quiet
    /\ Len(SIM_STATE.sip_history) = 2
    /\ \E i, j \in 1..2 : SIM_STATE.sip_history[i] > 0 /\ SIM_STATE.lumpsum_history[j] > 0
    /\ SIM_STATE.invested_amount > 0

(* ------------------------------------------------------------------ *)
(* What a cycle plans and executes                                     *)
(* ------------------------------------------------------------------ *)

\* Cycles run one after the other, from markets that include a buy crossover
\* at a volatility between 0.02 and 0.035.
InitProfiles == InitWith(BootPatterns \cup {BootBuyMid, BootBuyDip})

SpecProfiles == InitProfiles /\ [][NextCycles]_vars

\* The state the cycle in flight has observed and the plan it has made.
Observed == loc["auto"].state
Planned == loc["auto"].plan_out

\* C29: in every cycle run on its own the observed risk profile is aggressive
\* for a volatility < 0.02, balanced for one < 0.035 and conservative
\* otherwise; under the conservative profile the plan's action is never invest,
\* under the balanced profile its mode is never lumpsum, and the mode lumpsum
\* is planned under the aggressive profile only.
C29_ProfileConsequences ==
    Planned # EmptyDict =>
        /\ Observed.risk_profile =
              (IF Observed.volatility < 200 THEN "aggressive"
               ELSE IF Observed.volatility < 350 THEN "balanced"
               ELSE "conservative")
        /\ Observed.risk_profile = "conservative" => Planned.action # "invest"
        /\ Observed.risk_profile = "balanced" => Planned.invest_mode # "lumpsum"
        /\ Planned.invest_mode = "lumpsum" => Observed.risk_profile = "aggressive"

\* C29 witness: a cycle of volatility < 0.02 has planned a lump sum.
C29_Witness ==
    /\ Planned # EmptyDict
    /\ Observed.volatility < 200
    /\ Planned.action = "invest" /\ Planned.invest_mode = "lumpsum"
    /\ Planned.invest_amount > 0

\* C30: in every cycle whose planned action is repay, save or hold the planned
\* amount is 0, and the execute step leaves the bank balance, the ledger
\* positions and the cumulative invested amount as they were; a repay returns
\* the status repaid with the amount 0.
C30_NonInvestMovesNoCash ==
    [][CycleExecute("auto") /\ Planned.action \in {"repay", "save", "hold"} =>
          /\ Planned.invest_amount = 0
          /\ SIM_STATE'.bank_balance = SIM_STATE.bank_balance
          /\ SIM_STATE'.invested_amount = SIM_STATE.invested_amount
          /\ _global_portfolio'.positions = _global_portfolio.positions
          /\ Planned.action = "repay" =>
                loc'["auto"].result = [status |-> "repaid", amount |-> 0]
      ]_vars

\* C30 witness: the execute step of a cycle that planned repay has returned
\* repaid, and the account holds the suggestion of a positive SIP.
C30_Witness ==
    /\ pc["auto"] = "update_nav"
    /\ Planned.action = "repay"
    /\ Planned.suggested_sip > 0
    /\ loc["auto"].result.status = "repaid"

====
